---- MODULE Spec2Model ----
(***************************************************************************)
(* A model of rdp2gui (src/rdp2gui.py): the credential store (keyring with *)
(* a file fallback), the connection registry (per-host profiles and the    *)
(* recent list) and the construction of the xfreerdp argument vector.      *)
(*                                                                         *)
(* Modelling conventions                                                   *)
(*  - a Python dict is a function whose DOMAIN is the set of its keys;     *)
(*    dict.get(k, d) is Get(m, k, d).                                      *)
(*  - a JSON text is a record [kind, val]: kind "json" carries the value   *)
(*    json.dumps was given, the other kinds are texts json.loads rejects   *)
(*    ("garbage": a truncated or foreign text) or that are falsy ("empty").*)
(*  - a file is a record [exists, mode, data].                             *)
(*  - every handler is one action; an exception that leaves the handler is *)
(*    recorded in raised, the handler's name and inputs in last_op.        *)
(***************************************************************************)
EXTENDS Integers, Sequences, FiniteSets, TLC

VARIABLES
    KEYRING_AVAILABLE,    \* module constant decided at import (lines 40-65)
    use_keyring,          \* self.use_keyring
    keyring_toggle_item,  \* active state of the "Use System Keyring" menu item
    stored_credentials,   \* self.stored_credentials: "host:user" -> password
    keyring_entry,        \* the secret-service entry ("rdp2gui", "credentials")
    credentials_file,     \* ~/.config/rdp2gui/credentials.json
    config,               \* self.config: [connections, recent]
    config_file,          \* ~/.config/rdp2gui/config.json
    clock,                \* local time in seconds, as last_used records it
    monitor_entry,        \* text of the monitor entry of the options dialog
    cmd,                  \* the argument vector last handed to Popen
    message,              \* the message dialog last shown
    raised,               \* the last handler left by an unhandled exception
    last_op,              \* the last handler and its inputs
    current_process,      \* self.current_process: None or the Popen object
    connection_window,    \* the main thread inside show_connection_window
    monitor_process,      \* the monitor thread of each connection window
    child                 \* the client process of each connection

vars == <<KEYRING_AVAILABLE, use_keyring, keyring_toggle_item,
          stored_credentials, keyring_entry, credentials_file, config,
          config_file, clock, monitor_entry, cmd, message, raised,
          last_op, current_process, connection_window, monitor_process, child>>

credVars == <<KEYRING_AVAILABLE, use_keyring, keyring_toggle_item,
              stored_credentials, keyring_entry, credentials_file>>

regVars == <<config, config_file, clock>>

procVars == <<current_process, connection_window, monitor_process, child>>

uiVars == <<monitor_entry, cmd, procVars>>

-----------------------------------------------------------------------------
(* Dictionaries and JSON texts                                             *)

EmptyMap == [k \in {} |-> ""]

Get(m, k, default) == IF k \in DOMAIN m THEN m[k] ELSE default

Put(m, k, v) == [x \in DOMAIN m \cup {k} |-> IF x = k THEN v ELSE m[x]]

\* json.dumps(value): a text that json.loads turns back into value.
json_dumps(value) == [kind |-> "json", val |-> value]

\* Texts that are not the output of json.dumps.
NoText == [kind |-> "none", val |-> EmptyMap]
EmptyText == [kind |-> "empty", val |-> EmptyMap]
GarbageText == [kind |-> "garbage", val |-> EmptyMap]

\* json.loads(text) succeeds exactly on the texts json.dumps wrote.
json_loads_ok(text) == text.kind = "json"

json_loads(text) == text.val

\* Python truthiness of the str | None that keyring.get_password returns.
Truthy(text) == text.kind \in {"json", "garbage"}

-----------------------------------------------------------------------------
(* Files                                                                   *)

OwnerOnly == "0600"

\* Mode of a file that open(path, 'w') creates under the usual umask 022.
CreatedMode == "0644"

NoFile == [exists |-> FALSE, mode |-> "none", data |-> NoText]

\* Where a write of a JSON document to a file can fail:
\* os.makedirs, open, json.dump (mid-write) or os.chmod.
DiskFailures == {"none", "makedirs", "open", "dump", "chmod"}

\* os.makedirs(dir, exist_ok=True); with open(path, 'w') as f: json.dump(doc, f);
\* os.chmod(path, 0o600).  Nothing is caught: the first failing call leaves the
\* file as it is at that point and the exception propagates.
WriteJsonFile(file, doc, disk_fail) ==
    LET opened == [exists |-> TRUE,
                   mode |-> IF file.exists THEN file.mode ELSE CreatedMode,
                   data |-> GarbageText]
    IN  CASE disk_fail \in {"makedirs", "open"} -> [file |-> file, raised |-> TRUE]
          [] disk_fail = "dump" -> [file |-> opened, raised |-> TRUE]
          [] disk_fail = "chmod" ->
                [file |-> [opened EXCEPT !.data = json_dumps(doc)], raised |-> TRUE]
          [] OTHER ->
                [file |-> [exists |-> TRUE, mode |-> OwnerOnly, data |-> json_dumps(doc)],
                 raised |-> FALSE]

-----------------------------------------------------------------------------
(* Ghost record of the last handler                                        *)

Op(name, hostname, username, password, kr_failed, disk_fail) ==
    [name |-> name, hostname |-> hostname, username |-> username,
     password |-> password, kr_failed |-> kr_failed, disk_fail |-> disk_fail,
     domain |-> "", text |-> "", response |-> "none", remember |-> FALSE,
     outcome |-> "", kr_called |-> FALSE, options |-> EmptyMap]

NoOp == Op("init", "", "", "", FALSE, "none")

-----------------------------------------------------------------------------
(* Credential store                                                        *)

\* mutant: the username is left out of the key
CredentialKey_HostOnly(hostname, username) == hostname \o ":"

\* key = f"{hostname}:{username}"
CredentialKey(hostname, username) == hostname \o ":" \o username

\* The value the import block gives KEYRING_AVAILABLE: False when
\* `import keyring` fails, when get_keyring raises, or when the backend's
\* class name holds "kde" or "kwallet" and setting the SecretService backend
\* raises; True otherwise.
keyring_import(import_fails, get_keyring_raises, wallet_backend, set_keyring_raises) ==
    IF import_fails \/ get_keyring_raises
    THEN FALSE
    ELSE IF wallet_backend
         THEN ~set_keyring_raises
         ELSE TRUE

\* The values of KEYRING_AVAILABLE over the outcomes of the import block.
KeyringImportOutcomes ==
    {keyring_import(i, g, w, s) : i \in BOOLEAN, g \in BOOLEAN, w \in BOOLEAN, s \in BOOLEAN}

\* The keyring is consulted only under this condition (lines 959, 986, 1028).
KeyringEnabled(use_kr) == KEYRING_AVAILABLE /\ use_kr

\* mutant: an exception of keyring.get_password is not caught
load_credentials_with_Uncaught(use_kr, kr_raises, disk_fail) ==
    IF KeyringEnabled(use_kr) /\ kr_raises
    THEN [creds |-> EmptyMap, file |-> credentials_file, raised |-> TRUE,
          kr_called |-> KeyringEnabled(use_kr)]
    ELSE IF /\ KeyringEnabled(use_kr)
            /\ Truthy(keyring_entry)
            /\ json_loads_ok(keyring_entry)
    THEN [creds |-> json_loads(keyring_entry), file |-> credentials_file,
          raised |-> FALSE, kr_called |-> KeyringEnabled(use_kr)]
    ELSE IF /\ credentials_file.exists
            /\ disk_fail # "open"
            /\ json_loads_ok(credentials_file.data)
         THEN [creds |-> json_loads(credentials_file.data),
               file |-> IF disk_fail = "chmod"
                        THEN credentials_file
                        ELSE [credentials_file EXCEPT !.mode = OwnerOnly],
               raised |-> FALSE, kr_called |-> KeyringEnabled(use_kr)]
         ELSE [creds |-> EmptyMap, file |-> credentials_file, raised |-> FALSE,
               kr_called |-> KeyringEnabled(use_kr)]

\* load_credentials with self.use_keyring = use_kr.  kr_raises: get_password
\* raises; disk_fail: "open" (the file cannot be read) or "chmod".
\* Result: the map returned, the credentials file afterwards, and whether an
\* exception left the function: the keyring calls and json.loads sit in
\* try/except Exception, the file calls in try/except, so none does.
load_credentials_with(use_kr, kr_raises, disk_fail) ==
    IF /\ KeyringEnabled(use_kr)
       /\ ~kr_raises
       /\ Truthy(keyring_entry)
       /\ json_loads_ok(keyring_entry)
    THEN [creds |-> json_loads(keyring_entry), file |-> credentials_file,
          raised |-> FALSE, kr_called |-> KeyringEnabled(use_kr)]
    ELSE IF /\ credentials_file.exists
            /\ disk_fail # "open"
            /\ json_loads_ok(credentials_file.data)
         THEN [creds |-> json_loads(credentials_file.data),
               file |-> IF disk_fail = "chmod"
                        THEN credentials_file
                        ELSE [credentials_file EXCEPT !.mode = OwnerOnly],
               raised |-> FALSE, kr_called |-> KeyringEnabled(use_kr)]
         ELSE [creds |-> EmptyMap, file |-> credentials_file, raised |-> FALSE,
               kr_called |-> KeyringEnabled(use_kr)]

load_credentials(kr_raises, disk_fail) ==
    load_credentials_with(use_keyring, kr_raises, disk_fail)

\* mutant: the keyring is used whenever the module is available, whatever
\* the menu toggle says
save_password_effect_IgnoresToggle(hostname, username, password, kr_raises, disk_fail) ==
    LET key == CredentialKey(hostname, username)
        creds == Put(stored_credentials, key, password)
    IN  IF KEYRING_AVAILABLE /\ ~kr_raises
        THEN [creds |-> creds, keyring |-> json_dumps(creds),
              file |-> credentials_file, raised |-> FALSE, kr_failed |-> FALSE,
              kr_called |-> TRUE]
        ELSE LET w == WriteJsonFile(credentials_file, creds, disk_fail)
             IN  [creds |-> creds, keyring |-> keyring_entry, file |-> w.file,
                  raised |-> w.raised, kr_failed |-> KEYRING_AVAILABLE,
                  kr_called |-> KEYRING_AVAILABLE]

\* Effect of save_password: the in-memory map is updated first, then the
\* whole map goes to the keyring, or, when the keyring is not enabled or
\* set_password raises, to the credentials file.  kr_called: whether
\* keyring.set_password was called at all (line 988).
save_password_effect(hostname, username, password, kr_raises, disk_fail) ==
    LET key == CredentialKey(hostname, username)
        creds == Put(stored_credentials, key, password)
    IN  IF KeyringEnabled(use_keyring) /\ ~kr_raises
        THEN [creds |-> creds, keyring |-> json_dumps(creds),
              file |-> credentials_file, raised |-> FALSE, kr_failed |-> FALSE,
              kr_called |-> TRUE]
        ELSE LET w == WriteJsonFile(credentials_file, creds, disk_fail)
             IN  [creds |-> creds, keyring |-> keyring_entry, file |-> w.file,
                  raised |-> w.raised, kr_failed |-> KeyringEnabled(use_keyring),
                  kr_called |-> KeyringEnabled(use_keyring)]

\* Inputs that the handler never looks at take one fixed value.
KeyringInputOk(kr_raises) == kr_raises => KeyringEnabled(use_keyring)

save_password(hostname, username, password, kr_raises, disk_fail) ==
    /\ KeyringInputOk(kr_raises)
    /\ (KeyringEnabled(use_keyring) /\ ~kr_raises) => disk_fail = "none"
    /\ LET e == save_password_effect(hostname, username, password, kr_raises, disk_fail)
       IN  /\ stored_credentials' = e.creds
           /\ keyring_entry' = e.keyring
           /\ credentials_file' = e.file
           /\ raised' = e.raised
           /\ last_op' = [Op("save_password", hostname, username, password,
                              e.kr_failed, disk_fail)
                           EXCEPT !.kr_called = e.kr_called]
    /\ message' = "none"
    /\ UNCHANGED <<KEYRING_AVAILABLE, use_keyring, keyring_toggle_item, regVars, uiVars>>

\* The None that dict.get(key) returns for a missing key.  Its callers only
\* test it for truth, and no password that is saved is empty (line 335).
None == ""

\* get_password_for_connection: self.stored_credentials.get(key)
get_password_for_connection(hostname, username) ==
    Get(stored_credentials, CredentialKey(hostname, username), None)

\* Effect of clear_saved_passwords once the user answered the question.
clear_saved_passwords_effect(response_yes, kr_raises, remove_fails) ==
    IF ~response_yes
    THEN [creds |-> stored_credentials, keyring |-> keyring_entry,
          file |-> credentials_file, raised |-> FALSE, message |-> "none",
          kr_called |-> FALSE]
    ELSE LET rm_raises == credentials_file.exists /\ remove_fails
         IN  [kr_called |-> KeyringEnabled(use_keyring),
              creds |-> EmptyMap,
              keyring |-> IF KeyringEnabled(use_keyring) /\ ~kr_raises
                          THEN NoText ELSE keyring_entry,
              file |-> IF credentials_file.exists /\ ~remove_fails
                       THEN NoFile ELSE credentials_file,
              raised |-> rm_raises,
              message |-> IF rm_raises THEN "none" ELSE "info:passwords cleared"]

clear_saved_passwords(response_yes, kr_raises, remove_fails) ==
    /\ KeyringInputOk(kr_raises)
    /\ ~response_yes => (~kr_raises /\ ~remove_fails)
    /\ remove_fails => credentials_file.exists
    /\ LET e == clear_saved_passwords_effect(response_yes, kr_raises, remove_fails)
       IN  /\ stored_credentials' = e.creds
           /\ keyring_entry' = e.keyring
           /\ credentials_file' = e.file
           /\ raised' = e.raised
           /\ message' = e.message
           /\ last_op' = [Op(IF response_yes THEN "clear_saved_passwords"
                                             ELSE "clear_declined",
                              "", "", "", kr_raises,
                              IF remove_fails THEN "remove" ELSE "none")
                           EXCEPT !.kr_called = e.kr_called]
    /\ UNCHANGED <<KEYRING_AVAILABLE, use_keyring, keyring_toggle_item, regVars, uiVars>>

\* mutant: the toggle is not reverted when the keyring module is missing
toggle_keyring_support_effect_NoRevert(active) ==
    IF ~active
    THEN [use_keyring |-> FALSE, item |-> FALSE, message |-> "info:keyring disabled"]
    ELSE [use_keyring |-> TRUE, item |-> TRUE, message |-> "info:keyring enabled"]

\* Effect of toggle_keyring_support when the menu item becomes `active`.
\* widget.set_active(False) re-enters the handler with the item inactive.
toggle_keyring_support_effect(active) ==
    IF ~active
    THEN [use_keyring |-> FALSE, item |-> FALSE, message |-> "info:keyring disabled"]
    ELSE IF ~KEYRING_AVAILABLE
         THEN [use_keyring |-> FALSE, item |-> FALSE, message |-> "info:keyring not available"]
         ELSE [use_keyring |-> TRUE, item |-> TRUE, message |-> "info:keyring enabled"]

\* The user clicks the check menu item: its state flips, then the handler runs.
toggle_keyring_support ==
    /\ LET e == toggle_keyring_support_effect(~keyring_toggle_item)
       IN  /\ use_keyring' = e.use_keyring
           /\ keyring_toggle_item' = e.item
           /\ message' = e.message
    /\ raised' = FALSE
    /\ last_op' = Op("toggle_keyring_support", "", "", "", FALSE, "none")
    /\ UNCHANGED <<KEYRING_AVAILABLE, stored_credentials, keyring_entry,
                   credentials_file, regVars, uiVars>>

-----------------------------------------------------------------------------
(* Registry documents                                                      *)

EmptyConfig == [connections |-> EmptyMap, recent |-> <<>>]

\* load_config: the parsed document, or {} when the file is absent,
\* unreadable or not JSON.
load_config(read_fails) ==
    IF config_file.exists /\ ~read_fails /\ json_loads_ok(config_file.data)
    THEN json_loads(config_file.data)
    ELSE EmptyConfig

\* Bound on the session clock (seconds since the session started).
MaxClock == 3

\* self.config["recent"][:10]
MaxRecent == 10

Min(a, b) == IF a < b THEN a ELSE b

\* mutant: the existing occurrence is not removed
RemoveHost_Keep(recent, hostname) == recent

\* [r for r in recent if r != hostname]
RemoveHost(recent, hostname) == SelectSeq(recent, LAMBDA r : r # hostname)

\* mutant: the hostname is appended instead of inserted at the front
InsertFront_Append(recent, hostname) == Append(recent, hostname)

\* recent.insert(0, hostname)
InsertFront(recent, hostname) == <<hostname>> \o recent

\* mutant: the cap is applied one entry late
KeepFirst_OffByOne(recent) == SubSeq(recent, 1, Min(Len(recent), MaxRecent + 1))

\* recent[:10]
KeepFirst(recent) == SubSeq(recent, 1, Min(Len(recent), MaxRecent))

\* The recent list after save_connection_info(hostname, ...) (lines 872-879).
UpsertRecent(recent, hostname) ==
    KeepFirst(InsertFront(RemoveHost(recent, hostname), hostname))

\* mutant: the document is changed in memory and save_config is not called
save_connection_info_effect_NoSave(hostname, username, domain, now, disk_fail) ==
    LET profile0 == Get(config.connections, hostname, EmptyMap)
        profile == Put(Put(Put(profile0, "username", username),
                           "domain", domain), "last_used", now)
        cfg == [connections |-> Put(config.connections, hostname, profile),
                recent |-> UpsertRecent(config.recent, hostname)]
    IN  [config |-> cfg, file |-> config_file, raised |-> FALSE]

\* mutant: the profile is not created, only the recent list is maintained
save_connection_info_effect_NoProfile(hostname, username, domain, now, disk_fail) ==
    LET cfg == [connections |-> config.connections,
                recent |-> UpsertRecent(config.recent, hostname)]
        w == WriteJsonFile(config_file, cfg, disk_fail)
    IN  [config |-> cfg, file |-> w.file, raised |-> w.raised]

\* Effect of save_connection_info at local time `now`: the profile's
\* username, domain and last_used are set, the recent list is maintained and
\* the whole document is written by save_config.
save_connection_info_effect(hostname, username, domain, now, disk_fail) ==
    LET profile0 == Get(config.connections, hostname, EmptyMap)
        profile == Put(Put(Put(profile0, "username", username),
                           "domain", domain), "last_used", now)
        cfg == [connections |-> Put(config.connections, hostname, profile),
                recent |-> UpsertRecent(config.recent, hostname)]
        w == WriteJsonFile(config_file, cfg, disk_fail)
    IN  [config |-> cfg, file |-> w.file, raised |-> w.raised]

save_connection_info(hostname, username, domain, now, disk_fail) ==
    /\ now >= clock
    /\ now <= MaxClock
    /\ LET e == save_connection_info_effect(hostname, username, domain, now, disk_fail)
       IN  /\ config' = e.config
           /\ config_file' = e.file
           /\ raised' = e.raised
    /\ clock' = now
    /\ message' = "none"
    /\ last_op' = [Op("save_connection_info", hostname, username, "", FALSE, disk_fail)
                    EXCEPT !.domain = domain]
    /\ UNCHANGED <<credVars, uiVars>>

-----------------------------------------------------------------------------
(* Text: str.strip, str.split, int, str, str.join                          *)

CharAt(s, i) == SubSeq(s, i, i)

RECURSIVE LStrip(_)
LStrip(s) ==
    IF Len(s) > 0 /\ CharAt(s, 1) = " " THEN LStrip(SubSeq(s, 2, Len(s))) ELSE s

RECURSIVE RStrip(_)
RStrip(s) ==
    IF Len(s) > 0 /\ CharAt(s, Len(s)) = " " THEN RStrip(SubSeq(s, 1, Len(s) - 1)) ELSE s

\* s.strip()
Strip(s) == RStrip(LStrip(s))

\* s.split(sep) for a one-character separator
RECURSIVE Split(_, _)
Split(s, sep) ==
    IF \E i \in 1..Len(s) : CharAt(s, i) = sep
    THEN LET i == CHOOSE j \in 1..Len(s) :
                    /\ CharAt(s, j) = sep
                    /\ \A k \in 1..(j - 1) : CharAt(s, k) # sep
         IN  <<SubSeq(s, 1, i - 1)>> \o Split(SubSeq(s, i + 1, Len(s)), sep)
    ELSE <<s>>

DigitChars == <<"0", "1", "2", "3", "4", "5", "6", "7", "8", "9">>

IsDigit(c) == \E d \in 1..Len(DigitChars) : DigitChars[d] = c

DigitValue(c) == (CHOOSE d \in 1..Len(DigitChars) : DigitChars[d] = c) - 1

IsDigits(s) == Len(s) > 0 /\ \A i \in 1..Len(s) : IsDigit(CharAt(s, i))

RECURSIVE DigitsValue(_)
DigitsValue(s) ==
    IF Len(s) = 0 THEN 0
    ELSE 10 * DigitsValue(SubSeq(s, 1, Len(s) - 1)) + DigitValue(CharAt(s, Len(s)))

\* int(s) succeeds: optional blanks around an optional sign and decimal digits.
int_ok(s) ==
    LET t == Strip(s)
    IN  IF Len(t) > 0 /\ CharAt(t, 1) \in {"+", "-"}
        THEN IsDigits(SubSeq(t, 2, Len(t)))
        ELSE IsDigits(t)

\* int(s), where it succeeds
int(s) ==
    LET t == Strip(s)
    IN  IF CharAt(t, 1) = "-" THEN 0 - DigitsValue(SubSeq(t, 2, Len(t)))
        ELSE IF CharAt(t, 1) = "+" THEN DigitsValue(SubSeq(t, 2, Len(t)))
        ELSE DigitsValue(t)

RECURSIVE NatToStr(_)
NatToStr(n) ==
    IF n < 10 THEN DigitChars[n + 1]
    ELSE NatToStr(n \div 10) \o DigitChars[(n % 10) + 1]

\* str(n) for an int
str(n) == IF n < 0 THEN "-" \o NatToStr(0 - n) ELSE NatToStr(n)

\* sep.join(str(m) for m in ints)
RECURSIVE JoinInts(_, _)
JoinInts(ints, sep) ==
    IF Len(ints) = 0 THEN ""
    ELSE IF Len(ints) = 1 THEN str(ints[1])
    ELSE str(ints[1]) \o sep \o JoinInts(Tail(ints), sep)

-----------------------------------------------------------------------------
(* Advanced options                                                        *)

\* The choices of the resolution combo box (lines 561-562).
Resolutions == <<"1920x1080", "1680x1050", "1600x900", "1440x900",
                 "1366x768", "1280x1024", "1280x720", "1024x768">>

\* get_advanced_options(hostname) over the registry cfg: the stored set, {}
\* when there is none.
AdvancedOptionsIn(cfg, hostname) ==
    IF hostname \in DOMAIN cfg.connections
    THEN Get(cfg.connections[hostname], "advanced", EmptyMap)
    ELSE EmptyMap

get_advanced_options(hostname) == AdvancedOptionsIn(config, hostname)

\* mutant: the integers parsed before the first malformed piece are kept
parse_monitors_KeepPrefix(monitor_text) ==
    LET pieces == Split(monitor_text, ",")
        bad == {i \in 1..Len(pieces) : ~int_ok(Strip(pieces[i]))}
        n == IF bad = {} THEN Len(pieces)
             ELSE (CHOOSE i \in bad : \A j \in bad : i <= j) - 1
    IN  IF monitor_text = "" THEN <<>>
        ELSE [i \in 1..n |-> int(Strip(pieces[i]))]

\* Lines 706-711: selected_monitors starts as []; a non-empty text is split
\* at commas and every piece converted by int(m.strip()); when any conversion
\* raises, the assignment does not happen and the exception is swallowed.
parse_monitors(monitor_text) ==
    LET pieces == Split(monitor_text, ",")
    IN  IF monitor_text = "" THEN <<>>
        ELSE IF \A i \in 1..Len(pieces) : int_ok(Strip(pieces[i]))
             THEN [i \in 1..Len(pieces) |-> int(Strip(pieces[i]))]
             ELSE <<>>

\* The option set the dialog builds from its widgets w (lines 687-703);
\* w.audio is the active radio button.
new_opts(w, monitor_text) ==
    [fullscreen |-> w.fullscreen,
     resolution |-> w.resolution,
     multimon |-> w.multimon,
     selected_monitors |-> parse_monitors(monitor_text),
     disable_fonts |-> w.disable_fonts,
     disable_wallpaper |-> w.disable_wallpaper,
     disable_themes |-> w.disable_themes,
     disable_aero |-> w.disable_aero,
     disable_drag |-> w.disable_drag,
     compression |-> w.compression,
     audio_mode |-> IF w.audio = "local" THEN "local"
                    ELSE IF w.audio = "remote" THEN "remote" ELSE "disabled",
     clipboard |-> w.clipboard,
     redirect_drives |-> w.redirect_drives,
     nla |-> w.nla]

\* mutant: the new options are merged into the stored set (dict.update)
save_advanced_options_effect_Merge(hostname, options, disk_fail) ==
    LET profile0 == Get(config.connections, hostname, EmptyMap)
        cfg == [config EXCEPT
                  !.connections = Put(config.connections, hostname,
                                      Put(profile0, "advanced",
                                          options @@ Get(profile0, "advanced", EmptyMap)))]
        w == WriteJsonFile(config_file, cfg, disk_fail)
    IN  [config |-> cfg, file |-> w.file, raised |-> w.raised]

\* mutant: saving options also puts the host at the front of the recent list
save_advanced_options_effect_Recent(hostname, options, disk_fail) ==
    LET profile0 == Get(config.connections, hostname, EmptyMap)
        cfg == [connections |-> Put(config.connections, hostname,
                                    Put(profile0, "advanced", options)),
                recent |-> UpsertRecent(config.recent, hostname)]
        w == WriteJsonFile(config_file, cfg, disk_fail)
    IN  [config |-> cfg, file |-> w.file, raised |-> w.raised]

\* Effect of save_advanced_options: the host's whole "advanced" entry is
\* replaced, then save_config writes the document.
save_advanced_options_effect(hostname, options, disk_fail) ==
    LET profile0 == Get(config.connections, hostname, EmptyMap)
        cfg == [config EXCEPT
                  !.connections = Put(config.connections, hostname,
                                      Put(profile0, "advanced", options))]
        w == WriteJsonFile(config_file, cfg, disk_fail)
    IN  [config |-> cfg, file |-> w.file, raised |-> w.raised]

\* The text the dialog puts into the monitor entry when it opens (lines 590-592).
MonitorEntryPrefill(opts) ==
    IF Get(opts, "selected_monitors", <<>>) # <<>>
    THEN JoinInts(Get(opts, "selected_monitors", <<>>), ",")
    ELSE ""

\* The handler of the "Advanced Options" button: hostname_text is the raw
\* content of the hostname entry, monitor_entry the text of the monitor entry
\* when the dialog is answered, response_ok tells Save from Cancel.  The
\* entry is left holding the text the dialog would open with next.
show_advanced_options(hostname_text, response_ok, w, disk_fail) ==
    LET hostname == Strip(hostname_text)
        entry_text == monitor_entry
        e == save_advanced_options_effect(hostname,
                                          new_opts(w, Strip(entry_text)), disk_fail)
    IN  /\ (hostname = "" \/ ~response_ok) => disk_fail = "none"
        /\ IF hostname = ""
           THEN /\ message' = "error:enter a hostname first"
                /\ raised' = FALSE
                /\ UNCHANGED <<config, config_file>>
           ELSE IF ~response_ok
           THEN /\ message' = "none"
                /\ raised' = FALSE
                /\ UNCHANGED <<config, config_file>>
           ELSE /\ config' = e.config
                /\ config_file' = e.file
                /\ raised' = e.raised
                /\ message' = IF e.raised THEN "none" ELSE "info:advanced options saved"
        /\ last_op' = [Op(IF response_ok THEN "show_advanced_options"
                          ELSE "advanced_options_cancelled",
                          hostname, "", "", FALSE, disk_fail)
                       EXCEPT !.text = entry_text,
                              !.options = IF hostname # "" /\ response_ok
                                          THEN new_opts(w, Strip(entry_text))
                                          ELSE EmptyMap]
        /\ monitor_entry' = IF hostname = "" THEN monitor_entry
                            ELSE MonitorEntryPrefill(
                                    Get(Get(config'.connections, hostname, EmptyMap),
                                        "advanced", EmptyMap))
        /\ UNCHANGED <<credVars, clock, cmd, procVars>>

-----------------------------------------------------------------------------
(* The xfreerdp argument vector                                            *)

\* os.path.expanduser("~")
HomeDir == "/home/user"

\* get_freerdp_command: xfreerdp3 before xfreerdp; "" stands for None.
get_freerdp_command(has_xfreerdp3, has_xfreerdp) ==
    IF has_xfreerdp3 THEN "xfreerdp3"
    ELSE IF has_xfreerdp THEN "xfreerdp" ELSE ""

\* mutant: an empty domain still yields a /d: token
UserTokens_AlwaysDomain(username, domain) == <<"/u:" \o username, "/d:" \o domain>>

\* Lines 363-367
UserTokens(username, domain) ==
    IF domain # "" THEN <<"/u:" \o username, "/d:" \o domain>>
    ELSE <<"/u:" \o username>>

\* mutant: the size token is added to /f instead of replacing it
DisplayTokens_Both(opts) ==
    IF Get(opts, "fullscreen", TRUE) THEN <<"/f">>
    ELSE <<"/f", "/size:" \o Get(opts, "resolution", "1920x1080")>>

\* Lines 375-381
DisplayTokens(opts) ==
    IF Get(opts, "fullscreen", TRUE) THEN <<"/f">>
    ELSE <<"/size:" \o Get(opts, "resolution", "1920x1080")>>

\* mutant: the monitors token does not depend on multimon
MultimonTokens_Ungated(opts) ==
    (IF Get(opts, "multimon", FALSE) THEN <<"/multimon">> ELSE <<>>)
    \o (IF Get(opts, "selected_monitors", <<>>) # <<>>
        THEN <<"/monitors:" \o JoinInts(Get(opts, "selected_monitors", <<>>), ",")>>
        ELSE <<>>)

\* Lines 383-391
MultimonTokens(opts) ==
    IF Get(opts, "multimon", FALSE)
    THEN <<"/multimon">> \o
         (IF Get(opts, "selected_monitors", <<>>) # <<>>
          THEN <<"/monitors:" \o JoinInts(Get(opts, "selected_monitors", <<>>), ",")>>
          ELSE <<>>)
    ELSE <<>>

\* mutant: a true default overrides a stored false
Flag_DefaultWins(opts, key, default, token) ==
    IF default \/ Get(opts, key, default) THEN <<token>> ELSE <<>>

\* if advanced_opts.get(key, default): cmd.append(token)
Flag(opts, key, default, token) == IF Get(opts, key, default) THEN <<token>> ELSE <<>>

\* mutant: themes and wallpaper change places
PerformanceTokens_Swapped(opts) ==
    Flag(opts, "disable_fonts", TRUE, "-fonts")
    \o Flag(opts, "disable_themes", TRUE, "-themes")
    \o Flag(opts, "disable_wallpaper", TRUE, "-wallpaper")
    \o Flag(opts, "disable_aero", TRUE, "-aero")
    \o Flag(opts, "disable_drag", TRUE, "-window-drag")

\* Lines 393-403
PerformanceTokens(opts) ==
    Flag(opts, "disable_fonts", TRUE, "-fonts")
    \o Flag(opts, "disable_wallpaper", TRUE, "-wallpaper")
    \o Flag(opts, "disable_themes", TRUE, "-themes")
    \o Flag(opts, "disable_aero", TRUE, "-aero")
    \o Flag(opts, "disable_drag", TRUE, "-window-drag")

\* mutant: the last branch is an else, so an unknown mode counts as disabled
AudioTokens_ElseDisabled(opts) ==
    LET audio_mode == Get(opts, "audio_mode", "local")
    IN  IF audio_mode = "local" THEN <<"/sound:sys:alsa">>
        ELSE IF audio_mode = "remote" THEN <<"/audio-mode:1">>
        ELSE <<"/audio-mode:2">>

\* Lines 405-412
AudioTokens(opts) ==
    LET audio_mode == Get(opts, "audio_mode", "local")
    IN  IF audio_mode = "local" THEN <<"/sound:sys:alsa">>
        ELSE IF audio_mode = "remote" THEN <<"/audio-mode:1">>
        ELSE IF audio_mode = "disabled" THEN <<"/audio-mode:2">>
        ELSE <<>>

\* Lines 418-421
DriveTokens(opts, home_dir) ==
    IF Get(opts, "redirect_drives", FALSE) THEN <<"/drive:home," \o home_dir>> ELSE <<>>

\* mutant: an option set without nla gets the legacy security mode
SecurityTokens_DefaultRdp(opts) ==
    IF Get(opts, "nla", FALSE) THEN <<"/sec:nla">> ELSE <<"/sec:rdp">>

\* Lines 426-430
SecurityTokens(opts) ==
    IF Get(opts, "nla", TRUE) THEN <<"/sec:nla">> ELSE <<"/sec:rdp">>

\* mutant: the password token is emitted before the user token
BuildCommand_PasswordFirst(freerdp_cmd, hostname, username, domain, password, opts, home_dir) ==
    <<freerdp_cmd>>
    \o <<"/v:" \o hostname>>
    \o <<"/p:" \o password>>
    \o UserTokens(username, domain)
    \o DisplayTokens(opts)
    \o MultimonTokens(opts)
    \o PerformanceTokens(opts)
    \o AudioTokens(opts)
    \o Flag(opts, "clipboard", TRUE, "+clipboard")
    \o DriveTokens(opts, home_dir)
    \o <<"/cert-ignore">>
    \o SecurityTokens(opts)
    \o Flag(opts, "compression", TRUE, "+compression")

\* The list cmd of start_rdp_connection as it is handed to Popen.
BuildCommand(freerdp_cmd, hostname, username, domain, password, opts, home_dir) ==
    <<freerdp_cmd>>
    \o <<"/v:" \o hostname>>
    \o UserTokens(username, domain)
    \o <<"/p:" \o password>>
    \o DisplayTokens(opts)
    \o MultimonTokens(opts)
    \o PerformanceTokens(opts)
    \o AudioTokens(opts)
    \o Flag(opts, "clipboard", TRUE, "+clipboard")
    \o DriveTokens(opts, home_dir)
    \o <<"/cert-ignore">>
    \o SecurityTokens(opts)
    \o Flag(opts, "compression", TRUE, "+compression")

\* start_rdp_connection: without a client an error is shown; otherwise the
\* argument vector is built and handed to Popen; when Popen raises, the
\* error is shown.  The connection window closes before the handler returns.
start_rdp_connection(hostname, username, domain, password, has_xfreerdp3, has_xfreerdp, popen_raises) ==
    LET freerdp_cmd == get_freerdp_command(has_xfreerdp3, has_xfreerdp)
    IN  /\ (freerdp_cmd = "" => ~popen_raises)
        /\ IF freerdp_cmd = ""
           THEN /\ cmd' = <<>>
                /\ message' = "error:FreeRDP is not installed"
           ELSE /\ cmd' = BuildCommand(freerdp_cmd, hostname, username, domain, password,
                                       get_advanced_options(hostname), HomeDir)
                /\ message' = IF popen_raises THEN "error:failed to start" ELSE "none"
        /\ raised' = FALSE
        /\ last_op' = [Op("start_rdp_connection", hostname, username, password,
                          FALSE, "none") EXCEPT !.domain = domain]
        /\ UNCHANGED <<credVars, regVars, monitor_entry, procVars>>

-----------------------------------------------------------------------------
(* The Connect button                                                      *)

\* mutant: an empty password is not rejected
validation_error_NoPasswordCheck(hostname, username, response_ok, password) ==
    IF hostname = "" THEN "error:enter a hostname"
    ELSE IF username = "" THEN "error:enter a username"
    ELSE ""

\* The check that stops the handler and the error it shows, "" when none
\* does: `if not hostname`, `if not username` in on_connect_clicked and
\* `if password: ... else:` in show_password_dialog after the OK response.
validation_error(hostname, username, response_ok, password) ==
    IF hostname = "" THEN "error:enter a hostname"
    ELSE IF username = "" THEN "error:enter a username"
    ELSE IF response_ok /\ password = "" THEN "error:password is required"
    ELSE ""

\* on_connect_clicked with show_password_dialog: the three entries are
\* stripped and checked; the password dialog is answered with response_ok,
\* the text of its entry and the state of its "Save password" box (both start
\* from the stored password and are the user's from then on); with a
\* non-empty password the handler saves the password if asked to, then the
\* connection info, then starts the client.  An exception of a step leaves
\* the handler and the later steps do not run.
on_connect_clicked(hostname_text, username_text, domain_text, response_ok, password, remember, kr_raises, cred_fail, now, cfg_fail, has_xfreerdp3, has_xfreerdp, popen_raises) ==
    LET hostname == Strip(hostname_text)
        username == Strip(username_text)
        domain == Strip(domain_text)
        error == validation_error(hostname, username, response_ok, password)
        asked == hostname # "" /\ username # ""
        confirmed == asked /\ response_ok /\ error = ""
        sp == IF remember
              THEN save_password_effect(hostname, username, password, kr_raises, cred_fail)
              ELSE [creds |-> stored_credentials, keyring |-> keyring_entry,
                    file |-> credentials_file, raised |-> FALSE, kr_failed |-> FALSE,
                    kr_called |-> FALSE]
        saving == confirmed /\ ~sp.raised
        sc == save_connection_info_effect(hostname, username, domain, now, cfg_fail)
        starting == saving /\ ~sc.raised
        freerdp_cmd == get_freerdp_command(has_xfreerdp3, has_xfreerdp)
        outcome == IF error # "" THEN "rejected"
                   ELSE IF ~response_ok THEN "cancelled"
                   ELSE IF sp.raised THEN "save_password raised"
                   ELSE IF sc.raised THEN "save_config raised"
                   ELSE IF freerdp_cmd = "" THEN "no client"
                   ELSE IF popen_raises THEN "popen raised"
                   ELSE "launched"
    IN  /\ ~asked => (~response_ok /\ password = "" /\ ~remember)
        /\ ~response_ok => (password = "" /\ ~remember)
        /\ password = "" => ~remember
        /\ kr_raises => (confirmed /\ remember /\ KeyringEnabled(use_keyring))
        /\ cred_fail # "none" =>
              (confirmed /\ remember /\ ~(KeyringEnabled(use_keyring) /\ ~kr_raises))
        /\ cfg_fail # "none" => saving
        /\ IF saving THEN now >= clock /\ now <= MaxClock ELSE now = clock
        /\ ~starting => (~has_xfreerdp3 /\ ~has_xfreerdp)
        /\ popen_raises => (starting /\ freerdp_cmd # "")
        /\ stored_credentials' = IF confirmed THEN sp.creds ELSE stored_credentials
        /\ keyring_entry' = IF confirmed THEN sp.keyring ELSE keyring_entry
        /\ credentials_file' = IF confirmed THEN sp.file ELSE credentials_file
        /\ config' = IF saving THEN sc.config ELSE config
        /\ config_file' = IF saving THEN sc.file ELSE config_file
        /\ clock' = now
        /\ cmd' = IF ~starting THEN cmd
                  ELSE IF freerdp_cmd = "" THEN <<>>
                  ELSE BuildCommand(freerdp_cmd, hostname, username, domain, password,
                                    AdvancedOptionsIn(sc.config, hostname), HomeDir)
        /\ message' = IF error # "" THEN error
                      ELSE IF ~starting THEN "none"
                      ELSE IF freerdp_cmd = "" THEN "error:FreeRDP is not installed"
                      ELSE IF popen_raises THEN "error:failed to start"
                      ELSE "none"
        /\ raised' = (confirmed /\ ~starting)
        /\ last_op' = [Op("on_connect_clicked", hostname, username, password,
                          confirmed /\ sp.kr_failed,
                          IF cred_fail # "none" THEN cred_fail ELSE cfg_fail)
                       EXCEPT !.domain = domain,
                              !.response = IF ~asked THEN "none"
                                           ELSE IF response_ok THEN "ok" ELSE "cancel",
                              !.remember = remember,
                              !.outcome = outcome,
                              !.kr_called = confirmed /\ sp.kr_called]
        /\ UNCHANGED <<KEYRING_AVAILABLE, use_keyring, keyring_toggle_item, monitor_entry,
                       procVars>>

-----------------------------------------------------------------------------
(* The connection window: main thread, monitor thread and client process   *)

\* Bound on the number of connections started in a session.
MaxConnections == 2

Connections == 1..MaxConnections

\* self.current_process = None; a Popen object is named by the number of
\* its connection.
NoProcess == 0

\* The main thread is not inside show_connection_window.  n: the connection
\* of the window last shown; calls: the Popen methods show_connection_window
\* called on its process after dialog.run() returned, in order; failed: the
\* calls among them that raised (for wait: TimeoutExpired).
NoWindow == [pc |-> "idle", n |-> 0, calls |-> <<>>, failed |-> {}]

\* on: the process whose wait() the thread called.
NoThread == [pc |-> "none", on |-> NoProcess]

NoThreads == [n \in Connections |-> NoThread]

InitProcesses ==
    /\ current_process = NoProcess
    /\ connection_window = NoWindow
    /\ monitor_process = NoThreads
    /\ child = [n \in Connections |-> "none"]

\* The connections started so far.
Started == {n \in Connections : child[n] # "none"}

\* Lines 436-447, 452-490: Popen gives the new process, which is assigned
\* to self.current_process; show_connection_window builds the dialog,
\* starts the monitor thread and enters dialog.run(), which makes the dialog
\* modal.  When Popen raises, the error is shown and nothing else happens.
OpenConnectionWindow(popen_raises) ==
    /\ connection_window.pc = "idle"
    /\ Cardinality(Started) < MaxConnections
    /\ IF popen_raises
       THEN /\ message' = "error:failed to start"
            /\ UNCHANGED procVars
       ELSE LET n == Cardinality(Started) + 1
            IN  /\ current_process' = n
                /\ child' = [child EXCEPT ![n] = "running"]
                /\ monitor_process' = [monitor_process EXCEPT ![n] =
                                          [pc |-> "start", on |-> NoProcess]]
                /\ connection_window' = [pc |-> "run", n |-> n, calls |-> <<>>,
                                         failed |-> {}]
                /\ message' = "none"
    /\ raised' = FALSE
    /\ last_op' = [Op("start_rdp_connection", "", "", "", FALSE, "none")
                    EXCEPT !.outcome = IF popen_raises THEN "popen raised"
                                       ELSE "launched"]
    /\ UNCHANGED <<credVars, regVars, monitor_entry, cmd>>

\* Line 483 in the thread of connection n: `if self.current_process:`.
\* The thread reads the field as it is now; with None it ends.
MonitorCheck(n) ==
    /\ monitor_process[n].pc = "start"
    /\ monitor_process' = [monitor_process EXCEPT ![n].pc =
                              IF current_process # NoProcess THEN "checked"
                              ELSE "ended"]
    /\ UNCHANGED <<credVars, regVars, monitor_entry, cmd, message, raised, last_op,
                   current_process, connection_window, child>>

\* Line 484: `self.current_process.wait()`.  The field is read again; on
\* None the attribute lookup raises AttributeError and the thread dies with
\* it, otherwise the thread blocks in wait() of the object it read.
MonitorWait(n) ==
    /\ monitor_process[n].pc = "checked"
    /\ monitor_process' = [monitor_process EXCEPT ![n] =
                              IF current_process = NoProcess
                              THEN [pc |-> "crashed", on |-> NoProcess]
                              ELSE [pc |-> "waiting", on |-> current_process]]
    /\ UNCHANGED <<credVars, regVars, monitor_entry, cmd, message, raised, last_op,
                   current_process, connection_window, child>>

\* Lines 484-485: wait() returns once the process it was called on has
\* exited; the thread queues dialog.destroy for its own dialog and ends.
MonitorNotify(n) ==
    /\ monitor_process[n].pc = "waiting"
    /\ child[monitor_process[n].on] = "exited"
    /\ monitor_process' = [monitor_process EXCEPT ![n].pc = "notified"]
    /\ UNCHANGED <<credVars, regVars, monitor_entry, cmd, message, raised, last_op,
                   current_process, connection_window, child>>

\* The client of connection n ends by itself (the remote session is closed).
ChildExits(n) ==
    /\ child[n] = "running"
    /\ child' = [child EXCEPT ![n] = "exited"]
    /\ UNCHANGED <<credVars, regVars, monitor_entry, cmd, message, raised, last_op,
                   current_process, connection_window, monitor_process>>

\* Line 492: dialog.run() returns, because the user pressed Disconnect or
\* closed the window (by_user), or because the dialog.destroy queued by the
\* dialog's monitor thread ran in the main loop.
DialogRunReturns(by_user) ==
    /\ connection_window.pc = "run"
    /\ ~by_user => monitor_process[connection_window.n].pc = "notified"
    /\ connection_window' = [connection_window EXCEPT !.pc = "closed"]
    /\ UNCHANGED <<credVars, regVars, monitor_entry, cmd, message, raised, last_op,
                   current_process, monitor_process, child>>

\* Lines 495-497: self.current_process is set, so terminate() is called on
\* it.  terminate() may raise (os.kill failing); otherwise a process that
\* still runs has been sent SIGTERM and wait(timeout=5) is entered.
Terminate(terminate_raises) ==
    /\ connection_window.pc = "closed"
    /\ current_process # NoProcess
    /\ connection_window' =
          [connection_window EXCEPT
              !.calls = Append(@, "terminate"),
              !.failed = IF terminate_raises THEN @ \cup {"terminate"} ELSE @,
              !.pc = IF terminate_raises THEN "except" ELSE "wait"]
    /\ UNCHANGED <<credVars, regVars, monitor_entry, cmd, message, raised, last_op,
                   current_process, monitor_process, child>>

\* Line 498: wait(timeout=5).  A process that has exited is reaped at once;
\* one that still runs either exits on the SIGTERM within the five seconds
\* or does not, and TimeoutExpired is raised.
WaitForExit(timed_out) ==
    /\ connection_window.pc = "wait"
    /\ timed_out => child[current_process] = "running"
    /\ connection_window' =
          [connection_window EXCEPT
              !.calls = Append(@, "wait"),
              !.failed = IF timed_out THEN @ \cup {"wait"} ELSE @,
              !.pc = IF timed_out THEN "except" ELSE "clear"]
    /\ child' = IF timed_out THEN child
                ELSE [child EXCEPT ![current_process] = "exited"]
    /\ UNCHANGED <<credVars, regVars, monitor_entry, cmd, message, raised, last_op,
                   current_process, monitor_process>>

\* Lines 499-500: the bare except calls kill() on the process.  Nothing
\* encloses this call inside show_connection_window: when kill() raises,
\* the exception leaves the function before line 501 and is caught by the
\* `except Exception` of start_rdp_connection (line 446), which shows the
\* error.  Otherwise the process has been sent SIGKILL and ends.
Kill(kill_raises) ==
    /\ connection_window.pc = "except"
    /\ connection_window' =
          [connection_window EXCEPT
              !.calls = Append(@, "kill"),
              !.failed = IF kill_raises THEN @ \cup {"kill"} ELSE @,
              !.pc = IF kill_raises THEN "idle" ELSE "clear"]
    /\ child' = IF kill_raises THEN child
                ELSE [child EXCEPT ![current_process] = "exited"]
    /\ message' = IF kill_raises THEN "error:failed to start" ELSE message
    /\ last_op' = IF kill_raises
                  THEN [Op("show_connection_window", "", "", "", FALSE, "none")
                        EXCEPT !.outcome = "kill raised"]
                  ELSE last_op
    /\ UNCHANGED <<credVars, regVars, monitor_entry, cmd, raised,
                   current_process, monitor_process>>

\* Lines 501-503: self.current_process = None; dialog.destroy(); the
\* function returns, and with it start_rdp_connection and the handler.
ClearProcess ==
    /\ connection_window.pc = "clear"
    /\ current_process' = NoProcess
    /\ connection_window' = [connection_window EXCEPT !.pc = "idle"]
    /\ last_op' = [Op("show_connection_window", "", "", "", FALSE, "none")
                    EXCEPT !.outcome = "returned"]
    /\ UNCHANGED <<credVars, regVars, monitor_entry, cmd, message, raised,
                   monitor_process, child>>

-----------------------------------------------------------------------------
(* Start of a session                                                      *)

\* RDPManager.__init__ in a new process over the same keyring and files.
Restart(kr_raises, disk_fail) ==
    /\ kr_raises => KEYRING_AVAILABLE
    /\ disk_fail \in {"none", "open", "chmod"}
    /\ disk_fail # "none" => credentials_file.exists
    /\ use_keyring' = KEYRING_AVAILABLE
    /\ keyring_toggle_item' = KEYRING_AVAILABLE
    /\ config' = load_config(FALSE)
    /\ LET l == load_credentials_with(KEYRING_AVAILABLE, kr_raises, disk_fail)
       IN  /\ stored_credentials' = l.creds
           /\ credentials_file' = l.file
           /\ raised' = l.raised
           /\ last_op' = [Op("init", "", "", "", kr_raises, disk_fail)
                           EXCEPT !.kr_called = l.kr_called]
    /\ cmd' = <<>>
    /\ message' = "none"
    /\ current_process' = NoProcess
    /\ connection_window' = NoWindow
    /\ monitor_process' = NoThreads
    /\ UNCHANGED <<KEYRING_AVAILABLE, keyring_entry, config_file, clock, monitor_entry,
                   child>>

-----------------------------------------------------------------------------
(* The credential store on its own                                         *)

Hosts == {"srv"}
Users == {"alice", "bob"}
Passwords == {"pw1", "pw2"}

\* A first start: no credentials file; the keyring entry is absent, or holds
\* a falsy or foreign text.
Init ==
    /\ KEYRING_AVAILABLE \in KeyringImportOutcomes
    /\ use_keyring = KEYRING_AVAILABLE
    /\ keyring_toggle_item = KEYRING_AVAILABLE
    /\ keyring_entry \in {NoText, EmptyText, GarbageText}
    /\ credentials_file = NoFile
    /\ stored_credentials = EmptyMap
    /\ config = EmptyConfig
    /\ config_file = NoFile
    /\ clock = 0
    /\ monitor_entry = ""
    /\ cmd = <<>>
    /\ message = "none"
    /\ raised = FALSE
    /\ last_op = NoOp
    /\ InitProcesses

SavePassword ==
    \E h \in Hosts, u \in Users, p \in Passwords, kr \in BOOLEAN, df \in DiskFailures :
        save_password(h, u, p, kr, df)

ClearSavedPasswords ==
    \E yes \in BOOLEAN, kr \in BOOLEAN, rm \in BOOLEAN : clear_saved_passwords(yes, kr, rm)

ToggleKeyring == toggle_keyring_support

NewSession == \E kr \in BOOLEAN, df \in DiskFailures : Restart(kr, df)

Next == SavePassword \/ ClearSavedPasswords \/ ToggleKeyring \/ NewSession

Spec == Init /\ [][Next]_vars

-----------------------------------------------------------------------------
(* The recent list on its own: eleven hostnames against the cap of ten     *)

RecentHosts == {"h01", "h02", "h03", "h04", "h05", "h06", "h07", "h08", "h09",
                "h10", "h11"}

EarlierOrder == <<"h01", "h02", "h03", "h04", "h05", "h06", "h07", "h08", "h09", "h10">>

\* The registry an earlier session left after connecting to the hosts of
\* `recent`, last one first, one second apart, the last at time 0.
RegistryAfter(recent) ==
    [connections |->
        [h \in {recent[i] : i \in 1..Len(recent)} |->
            LET i == CHOOSE j \in 1..Len(recent) : recent[j] = h
            IN  [k \in {"username", "domain", "last_used"} |->
                    CASE k = "username" -> "alice"
                      [] k = "domain" -> ""
                      [] OTHER -> 1 - i]],
     recent |-> recent]

InitRecent ==
    /\ KEYRING_AVAILABLE = FALSE
    /\ use_keyring = FALSE
    /\ keyring_toggle_item = FALSE
    /\ keyring_entry = NoText
    /\ credentials_file = NoFile
    /\ stored_credentials = EmptyMap
    /\ \E n \in {0, 9, 10} :
          /\ config = RegistryAfter(SubSeq(EarlierOrder, 1, n))
          /\ config_file = IF n = 0 THEN NoFile
                           ELSE [exists |-> TRUE, mode |-> OwnerOnly,
                                 data |-> json_dumps(config)]
    /\ clock = 0
    /\ monitor_entry = ""
    /\ cmd = <<>>
    /\ message = "none"
    /\ raised = FALSE
    /\ last_op = NoOp
    /\ InitProcesses

\* One connection per second.
SaveConnectionInfo ==
    \E h \in RecentHosts : save_connection_info(h, "alice", "", clock + 1, "none")

NextRecent == SaveConnectionInfo

SpecRecent == InitRecent /\ [][NextRecent]_vars

-----------------------------------------------------------------------------
(* The options dialog on its own                                           *)

\* Bound on the length of the texts typed into the monitor entry.
MaxTextLen == 4

MonitorChars == {"0", "1", "x", ","}

RECURSIVE TextsUpTo(_)
TextsUpTo(n) ==
    IF n = 0 THEN {""}
    ELSE LET shorter == TextsUpTo(n - 1)
         IN  shorter \cup {t \o c : t \in shorter, c \in MonitorChars}

\* Every text over MonitorChars up to MaxTextLen, and some longer ones.
MonitorTexts ==
    TextsUpTo(MaxTextLen)
    \cup {"0,1,x", " 0 , 1 ", "0, x ,1", "  ", "-1,+2", "10,2,0", "1,0,"}

\* The widgets of a dialog opened for a host without stored options.
DefaultWidgets ==
    [fullscreen |-> TRUE, resolution |-> Resolutions[1], multimon |-> FALSE,
     disable_fonts |-> TRUE, disable_wallpaper |-> TRUE, disable_themes |-> TRUE,
     disable_aero |-> TRUE, disable_drag |-> TRUE, compression |-> TRUE,
     audio |-> "local", clipboard |-> TRUE, redirect_drives |-> FALSE, nla |-> TRUE]

DialogWidgets ==
    {DefaultWidgets,
     [DefaultWidgets EXCEPT !.multimon = TRUE],
     [DefaultWidgets EXCEPT !.fullscreen = FALSE, !.resolution = Resolutions[8],
                            !.audio = "disabled", !.nla = FALSE]}

\* Options stored by an earlier session for "srv", with two monitors selected.
EarlierOptions == new_opts([DefaultWidgets EXCEPT !.multimon = TRUE], "0,1")

InitDialog ==
    /\ KEYRING_AVAILABLE = FALSE
    /\ use_keyring = FALSE
    /\ keyring_toggle_item = FALSE
    /\ keyring_entry = NoText
    /\ credentials_file = NoFile
    /\ stored_credentials = EmptyMap
    /\ \/ config = EmptyConfig /\ config_file = NoFile
       \/ /\ config = [connections |-> ("srv" :> ("advanced" :> EarlierOptions)),
                       recent |-> <<>>]
          /\ config_file = [exists |-> TRUE, mode |-> OwnerOnly,
                            data |-> json_dumps(config)]
    /\ clock = 0
    /\ monitor_entry \in MonitorTexts
    /\ cmd = <<>>
    /\ message = "none"
    /\ raised = FALSE
    /\ last_op = NoOp
    /\ InitProcesses

ShowAdvancedOptions ==
    \E ht \in {"", " srv "}, ok \in BOOLEAN, w \in DialogWidgets, df \in {"none", "open"} :
        /\ ~ok => w = DefaultWidgets
        /\ ht = "" => (ok /\ w = DefaultWidgets)
        /\ show_advanced_options(ht, ok, w, df)

NextDialog == ShowAdvancedOptions

SpecDialog == InitDialog /\ [][NextDialog]_vars

-----------------------------------------------------------------------------
(* The argument vector on its own                                          *)

\* Option sets as the dialog stores them.
DialogOptions ==
    [fullscreen : BOOLEAN, resolution : {Resolutions[1], Resolutions[8]},
     multimon : BOOLEAN, selected_monitors : {<<>>, <<1, 0>>},
     disable_fonts : BOOLEAN, disable_wallpaper : BOOLEAN, disable_themes : BOOLEAN,
     disable_aero : BOOLEAN, disable_drag : BOOLEAN, compression : BOOLEAN,
     audio_mode : {"local", "remote", "disabled"}, clipboard : BOOLEAN,
     redirect_drives : BOOLEAN, nla : BOOLEAN]

BooleanOptionKeys ==
    {"fullscreen", "multimon", "disable_fonts", "disable_wallpaper", "disable_themes",
     "disable_aero", "disable_drag", "compression", "clipboard", "redirect_drives",
     "nla"}

\* Option sets with keys missing, as a hand-edited or older config.json holds
\* them, and one with an audio mode the program does not know.
PartialOptions ==
    {EmptyMap}
    \cup {(k :> b) : k \in BooleanOptionKeys, b \in BOOLEAN}
    \cup {("audio_mode" :> a) : a \in {"local", "remote", "disabled", "surround"}}
    \cup {("fullscreen" :> FALSE) @@ ("resolution" :> Resolutions[8]),
          ("multimon" :> TRUE) @@ ("selected_monitors" :> <<2>>),
          ("multimon" :> TRUE) @@ ("selected_monitors" :> <<2, 0, 2>>),
          ("multimon" :> FALSE) @@ ("selected_monitors" :> <<2>>)}

StoredOptions == DialogOptions \cup PartialOptions

InitCmd ==
    /\ KEYRING_AVAILABLE = FALSE
    /\ use_keyring = FALSE
    /\ keyring_toggle_item = FALSE
    /\ keyring_entry = NoText
    /\ credentials_file = NoFile
    /\ stored_credentials = EmptyMap
    /\ \/ config = EmptyConfig
       \/ \E opts \in StoredOptions :
             config = [connections |-> ("srv" :> ("advanced" :> opts)), recent |-> <<>>]
    /\ config_file = IF config = EmptyConfig THEN NoFile
                     ELSE [exists |-> TRUE, mode |-> OwnerOnly, data |-> json_dumps(config)]
    /\ clock = 0
    /\ monitor_entry = ""
    /\ cmd = <<>>
    /\ message = "none"
    /\ raised = FALSE
    /\ last_op = NoOp
    /\ InitProcesses

CmdDomains == {"", "CORP"}
CmdPasswords == {"/v:x /f"}

StartRdpConnection ==
    \E d \in CmdDomains, p \in CmdPasswords, has3 \in BOOLEAN, has \in BOOLEAN,
       popen_raises \in BOOLEAN :
        /\ has3 => has
        /\ start_rdp_connection("srv", "alice", d, p, has3, has, popen_raises)

NextCmd == StartRdpConnection

SpecCmd == InitCmd /\ [][NextCmd]_vars

-----------------------------------------------------------------------------
(* A session of connecting, setting options and managing passwords         *)

\* A registry in which the options of "srv" were edited by hand: an audio
\* mode the dialog does not offer.
EditedRegistry ==
    [connections |-> ("srv" :> ("advanced" :> ("audio_mode" :> "surround"))),
     recent |-> <<>>]

InitConnect ==
    /\ KEYRING_AVAILABLE \in BOOLEAN
    /\ use_keyring = KEYRING_AVAILABLE
    /\ keyring_toggle_item = KEYRING_AVAILABLE
    /\ keyring_entry = NoText
    /\ credentials_file = NoFile
    /\ stored_credentials = EmptyMap
    /\ \/ config = EmptyConfig /\ config_file = NoFile
       \/ /\ config = EditedRegistry
          /\ config_file = [exists |-> TRUE, mode |-> OwnerOnly,
                            data |-> json_dumps(config)]
    /\ clock = 0
    /\ monitor_entry = ""
    /\ cmd = <<>>
    /\ message = "none"
    /\ raised = FALSE
    /\ last_op = NoOp
    /\ InitProcesses

ConnectHostTexts == {"", " ", " srv "}
ConnectUserTexts == {"", "alice "}
ConnectPasswords == {"", "pw1"}

\* The Connect button.  The session is short: its connections fall into
\* one second of the clock; the client found is xfreerdp3 or none.  The
\* conditions on the inputs repeat those of on_connect_clicked: an input the
\* handler does not reach takes its fixed value.
OnConnectClicked ==
    \E ht \in ConnectHostTexts, ut \in ConnectUserTexts, ok \in BOOLEAN,
       p \in ConnectPasswords, remember \in BOOLEAN :
        /\ ~ok => p = ""
        /\ p = "" => ~remember
        /\ \E kr \in BOOLEAN, cf \in {"none", "open"}, gf \in {"none", "dump"},
              has \in BOOLEAN, popen_raises \in BOOLEAN :
              /\ (kr \/ cf # "none") => remember
              /\ (gf # "none" \/ has) => p # ""
              /\ popen_raises => has
              /\ on_connect_clicked(ht, ut, " CORP", ok, p, remember, kr, cf, clock, gf,
                                    has, has, popen_raises)

\* The widgets of the options dialog as the user may leave them.
ConnectWidgets == DialogWidgets \cup {[DefaultWidgets EXCEPT !.audio = "remote"]}

AdvancedOptionsClicked ==
    \E ht \in ConnectHostTexts \ {" "}, ok \in BOOLEAN, w \in ConnectWidgets :
        /\ ~ok => w = DefaultWidgets
        /\ ht = "" => (ok /\ w = DefaultWidgets)
        /\ show_advanced_options(ht, ok, w, "none")

ClearClicked == \E yes \in BOOLEAN : clear_saved_passwords(yes, FALSE, FALSE)

NextConnect == OnConnectClicked \/ AdvancedOptionsClicked \/ ClearClicked

SpecConnect == InitConnect /\ [][NextConnect]_vars

-----------------------------------------------------------------------------
(* The registry on its own: two hosts, connections and option sets         *)

RegistryHosts == {"srv", "lab"}
RegistryUsers == {"alice", "bob"}

\* A first start: no configuration file, and one password in the
\* credentials file.
InitRegistry ==
    /\ KEYRING_AVAILABLE = FALSE
    /\ use_keyring = FALSE
    /\ keyring_toggle_item = FALSE
    /\ keyring_entry = NoText
    /\ stored_credentials = (CredentialKey("srv", "alice") :> "pw1")
    /\ credentials_file = [exists |-> TRUE, mode |-> OwnerOnly,
                           data |-> json_dumps(stored_credentials)]
    /\ config = EmptyConfig
    /\ config_file = NoFile
    /\ clock = 0
    /\ monitor_entry = ""
    /\ cmd = <<>>
    /\ message = "none"
    /\ raised = FALSE
    /\ last_op = NoOp
    /\ InitProcesses

\* A start over a registry in which the options of "srv" were edited by
\* hand and hold a key the dialog does not write.
InitRegistryEdited ==
    /\ KEYRING_AVAILABLE = FALSE
    /\ use_keyring = FALSE
    /\ keyring_toggle_item = FALSE
    /\ keyring_entry = NoText
    /\ stored_credentials = (CredentialKey("srv", "alice") :> "pw1")
    /\ credentials_file = [exists |-> TRUE, mode |-> OwnerOnly,
                           data |-> json_dumps(stored_credentials)]
    /\ config \in {EmptyConfig,
                   [connections |-> ("srv" :> ("advanced" :> ("gateway" :> "gw"))),
                    recent |-> <<>>]}
    /\ config_file = IF config = EmptyConfig THEN NoFile
                     ELSE [exists |-> TRUE, mode |-> OwnerOnly,
                           data |-> json_dumps(config)]
    /\ clock = 0
    /\ monitor_entry = ""
    /\ cmd = <<>>
    /\ message = "none"
    /\ raised = FALSE
    /\ last_op = NoOp
    /\ InitProcesses

\* One connection per second; save_config may fail while it writes.
SaveConnection ==
    \E h \in RegistryHosts, u \in RegistryUsers, df \in {"none", "dump"} :
        save_connection_info(h, u, "CORP", clock + 1, df)

\* The options dialog is saved for the host typed into the hostname entry.
SaveAdvancedOptions ==
    \E h \in RegistryHosts, w \in ConnectWidgets, df \in {"none", "dump"} :
        show_advanced_options(h, TRUE, w, df)

NextRegistry == SaveConnection \/ SaveAdvancedOptions

SpecRegistry == InitRegistry /\ [][NextRegistry]_vars

SpecRegistryEdited == InitRegistryEdited /\ [][NextRegistry]_vars

-----------------------------------------------------------------------------
(* Credential keys on their own: names with and without the separator      *)

KeyHosts == {"a", "a:b"}
KeyUsers == {"c", "d", "b:c"}

InitKeys ==
    /\ KEYRING_AVAILABLE = FALSE
    /\ use_keyring = FALSE
    /\ keyring_toggle_item = FALSE
    /\ keyring_entry = NoText
    /\ credentials_file = NoFile
    /\ stored_credentials = EmptyMap
    /\ config = EmptyConfig
    /\ config_file = NoFile
    /\ clock = 0
    /\ monitor_entry = ""
    /\ cmd = <<>>
    /\ message = "none"
    /\ raised = FALSE
    /\ last_op = NoOp
    /\ InitProcesses

SavePasswordFor ==
    \E h \in KeyHosts, u \in KeyUsers, p \in Passwords :
        save_password(h, u, p, FALSE, "none")

ClearPasswords == \E yes \in BOOLEAN : clear_saved_passwords(yes, FALSE, FALSE)

NextKeys == SavePasswordFor \/ ClearPasswords

SpecKeys == InitKeys /\ [][NextKeys]_vars

-----------------------------------------------------------------------------
(* Connection windows: the threads of a session step by step               *)

\* A first start without keyring, stored passwords or registry.
InitWindow ==
    /\ KEYRING_AVAILABLE = FALSE
    /\ use_keyring = FALSE
    /\ keyring_toggle_item = FALSE
    /\ keyring_entry = NoText
    /\ credentials_file = NoFile
    /\ stored_credentials = EmptyMap
    /\ config = EmptyConfig
    /\ config_file = NoFile
    /\ clock = 0
    /\ monitor_entry = ""
    /\ cmd = <<>>
    /\ message = "none"
    /\ raised = FALSE
    /\ last_op = NoOp
    /\ InitProcesses

OpenWindow == \E popen_raises \in BOOLEAN : OpenConnectionWindow(popen_raises)

MonitorStep ==
    \E n \in Connections : MonitorCheck(n) \/ MonitorWait(n) \/ MonitorNotify(n)

ChildStep == \E n \in Connections : ChildExits(n)

CloseWindow ==
    \/ \E by_user \in BOOLEAN : DialogRunReturns(by_user)
    \/ \E terminate_raises \in BOOLEAN : Terminate(terminate_raises)
    \/ \E timed_out \in BOOLEAN : WaitForExit(timed_out)
    \/ \E kill_raises \in BOOLEAN : Kill(kill_raises)
    \/ ClearProcess

NextWindow == OpenWindow \/ MonitorStep \/ ChildStep \/ CloseWindow

SpecWindow == InitWindow /\ [][NextWindow]_vars

-----------------------------------------------------------------------------
(* Properties of the credential store (specification Spec)                 *)

LoadFailures == {"none", "open", "chmod"}

SavedKey == CredentialKey(last_op.hostname, last_op.username)

\* The last handler was a save_password whose keyring write raised and whose
\* file write went through.
SavedByFallback ==
    /\ last_op.name = "save_password"
    /\ last_op.kr_failed
    /\ ~raised

\* C1: whenever the keyring is enabled but its write raises, save_password(h, u, p)
\* leaves the credentials file existing with mode 0600 and holding p under
\* "h:u", and a load_credentials() that follows returns a map in which "h:u"
\* maps to p, after any earlier saves, toggles and clears.
C1_FallbackSaveIsLoaded ==
    SavedByFallback =>
        /\ credentials_file.exists
        /\ credentials_file.mode = "0600"
        /\ json_loads_ok(credentials_file.data)
        /\ Get(json_loads(credentials_file.data), SavedKey, "") = last_op.password
        /\ \A kr \in BOOLEAN :
              Get(load_credentials(kr, "none").creds, SavedKey, "") = last_op.password

\* The last handler was a confirmed clear_saved_passwords that returned.
Cleared == last_op.name = "clear_saved_passwords" /\ ~raised

\* C2: after a confirmed clear_saved_passwords every load_credentials(), in
\* the same session or at the next start, returns the empty map, whatever
\* backend earlier saves went to, whatever the toggle says and whether or not
\* the keyring delete failed.
C2_ClearLeavesLoadEmpty ==
    Cleared =>
        \A kr \in BOOLEAN, df \in LoadFailures :
            /\ load_credentials(kr, df).creds = EmptyMap
            /\ load_credentials_with(KEYRING_AVAILABLE, kr, df).creds = EmptyMap

\* C3: every storage operation returns normally: no keyring or disk failure
\* leaves the handler as an exception.
C3_StorageNeverRaises == ~raised

\* A handler that ends in save_password, save_config or load_credentials
\* returned.
StorageReturned ==
    /\ last_op.name \in {"save_password", "init", "save_connection_info",
                         "show_advanced_options", "on_connect_clicked"}
    /\ ~raised

\* C11: in every state reached after save_password, save_config or
\* load_credentials returns, the credentials file and the configuration
\* file, if they exist, have mode 0600: neither is left readable by group or
\* others after its creation or after a write.
C11_FilesOwnerOnly ==
    StorageReturned =>
        /\ credentials_file.exists => credentials_file.mode = "0600"
        /\ config_file.exists => config_file.mode = "0600"

\* C13: load_credentials never fails.  With the keyring enabled it returns
\* the keyring's map; on a missing entry, an empty entry, a keyring exception
\* or an unparsable keyring value it falls back to the credentials file, and
\* when the file is absent, unreadable or unparsable it returns the empty
\* map.  The caller (the start of a session) sees one of the three maps and
\* never an error.
C13_LoadNeverFails ==
    last_op.name = "init" =>
        LET keyringAnswers == /\ KEYRING_AVAILABLE
                              /\ ~last_op.kr_failed
                              /\ keyring_entry.kind = "json"
            fileAnswers == /\ credentials_file.exists
                           /\ last_op.disk_fail # "open"
                           /\ credentials_file.data.kind = "json"
        IN  /\ ~raised
            /\ message = "none"
            /\ stored_credentials =
                  IF keyringAnswers THEN keyring_entry.val
                  ELSE IF fileAnswers THEN credentials_file.data.val
                  ELSE EmptyMap

\* A session started while the keyring raised, although it holds an entry:
\* the map of the credentials file was loaded instead.
C13_Witness ==
    /\ last_op.name = "init"
    /\ last_op.kr_failed
    /\ keyring_entry.kind = "json"
    /\ credentials_file.exists
    /\ stored_credentials = credentials_file.data.val
    /\ stored_credentials # EmptyMap
    /\ stored_credentials # keyring_entry.val

\* The last handler changed the in-memory credential map and returned.
MutationReturned ==
    /\ last_op.name \in {"save_password", "clear_saved_passwords"}
    /\ ~raised

\* C16: after every save_password or clear that returns, the active backing
\* store holds exactly the in-memory map: a load_credentials() called at that
\* point (with nothing failing during the load) returns a map equal to
\* stored_credentials, after any interleaving of saves, clears and toggles.
C16_PersistedEqualsMemory ==
    MutationReturned => load_credentials(FALSE, "none").creds = stored_credentials

\* The handlers that load, save or clear the credential map.
StorageOps == {"init", "save_password", "clear_saved_passwords"}

\* C23: whenever the keyring is unavailable (KEYRING_AVAILABLE came out
\* false of the import block) or the user has toggled it off, no load, save
\* or clear calls the keyring: the keyring entry stays as it was, a save
\* that returns leaves the whole map in the credentials file, a clear that
\* returns leaves no credentials file, a load answers from the file alone,
\* and the user sees no error message.
C23_BackendGating ==
    [][(last_op'.name \in StorageOps /\ ~(KEYRING_AVAILABLE' /\ use_keyring')) =>
          /\ ~last_op'.kr_called
          /\ ~last_op'.kr_failed
          /\ keyring_entry' = keyring_entry
          /\ message' \in {"none", "info:passwords cleared"}
          /\ (last_op'.name = "save_password" /\ ~raised') =>
                /\ credentials_file'.exists
                /\ credentials_file'.data = json_dumps(stored_credentials')
          /\ (last_op'.name = "clear_saved_passwords" /\ ~raised') =>
                /\ ~credentials_file'.exists
                /\ stored_credentials' = EmptyMap
          /\ last_op'.name = "init" =>
                /\ ~raised'
                /\ stored_credentials' =
                      IF /\ credentials_file.exists
                         /\ last_op'.disk_fail # "open"
                         /\ credentials_file.data.kind = "json"
                      THEN credentials_file.data.val
                      ELSE EmptyMap
      ]_vars

\* The keyring holds one user's password from before the user switched it
\* off; the save that followed put another user's password into the
\* credentials file and left the keyring entry alone.
C23_Witness ==
    /\ last_op.name = "save_password"
    /\ KEYRING_AVAILABLE
    /\ ~use_keyring
    /\ ~last_op.kr_called
    /\ keyring_entry.kind = "json"
    /\ keyring_entry.val # EmptyMap
    /\ credentials_file.exists
    /\ credentials_file.data = json_dumps(stored_credentials)
    /\ credentials_file.data.val # keyring_entry.val

\* C12: when KEYRING_AVAILABLE is false, a toggle of "Use System Keyring" to
\* enabled is reverted: after toggle_keyring_support returns, use_keyring is
\* false and the menu item is inactive, and the user was told by a
\* notification, not an error; after any sequence of toggles use_keyring is
\* true only if KEYRING_AVAILABLE is true.
C12_ToggleRejected ==
    /\ use_keyring => KEYRING_AVAILABLE
    /\ (last_op.name = "toggle_keyring_support" /\ ~KEYRING_AVAILABLE) =>
          /\ ~use_keyring
          /\ ~keyring_toggle_item
          /\ message = "info:keyring not available"
          /\ ~raised

\* The user tried to enable the keyring on a system without the module,
\* after a password had gone to the credentials file.
C12_Witness ==
    /\ last_op.name = "toggle_keyring_support"
    /\ ~KEYRING_AVAILABLE
    /\ ~use_keyring
    /\ ~keyring_toggle_item
    /\ message = "info:keyring not available"
    /\ credentials_file.exists

-----------------------------------------------------------------------------
(* Properties of the credential keys (specification SpecKeys)              *)

HasSeparator(s) == \E i \in 1..Len(s) : CharAt(s, i) = ":"

SeparatorFree(h, u) == ~HasSeparator(h) /\ ~HasSeparator(u)

\* C17: get_password_for_connection(h, u) returns the password most
\* recently saved for exactly the pair (h, u) since the last clear, or
\* nothing: a save for (h, u) makes it the password saved, a clear makes it
\* nothing for every pair, and a save for a different pair (h2, u2) leaves it
\* as it was, provided none of the four names contains ":".
C17_LookupIsolation ==
    [][ /\ \A h \in KeyHosts, u \in KeyUsers :
              (/\ last_op'.name = "save_password"
               /\ last_op'.hostname = h
               /\ last_op'.username = u) =>
                  /\ get_password_for_connection(h, u)' = last_op'.password
                  /\ \A h2 \in KeyHosts, u2 \in KeyUsers :
                        (/\ <<h2, u2>> # <<h, u>>
                         /\ SeparatorFree(h, u)
                         /\ SeparatorFree(h2, u2))
                        => get_password_for_connection(h2, u2)'
                              = get_password_for_connection(h2, u2)
        /\ last_op'.name = "clear_saved_passwords" =>
              \A h \in KeyHosts, u \in KeyUsers :
                  get_password_for_connection(h, u)' = None
        /\ last_op'.name \notin {"save_password", "clear_saved_passwords"} =>
              \A h \in KeyHosts, u \in KeyUsers :
                  get_password_for_connection(h, u)'
                      = get_password_for_connection(h, u) ]_vars

\* Passwords were saved for ("a", "c") and ("a", "d"), then one for
\* ("a:b", "c"): the first two lookups kept their values; the pair
\* ("a", "b:c"), for which nothing was saved, shares the key "a:b:c" and
\* returns the third password.
C17_Witness ==
    /\ last_op.name = "save_password"
    /\ last_op.hostname = "a:b"
    /\ last_op.username = "c"
    /\ last_op.password = "pw2"
    /\ DOMAIN stored_credentials = {"a:c", "a:d", "a:b:c"}
    /\ get_password_for_connection("a", "c") = "pw1"
    /\ get_password_for_connection("a", "d") = "pw2"
    /\ get_password_for_connection("a", "b:c") = "pw2"

-----------------------------------------------------------------------------
(* Properties of the recent list (specification SpecRecent)                *)

Range(seq) == {seq[i] : i \in 1..Len(seq)}

LastUsed(h) == config.connections[h]["last_used"]

\* C4: the recent list has at most 10 entries, holds no hostname twice and is
\* ordered most recently upserted first; a host that was upserted and is not
\* listed was upserted before every listed one, and only when the list is
\* full (so 11 distinct hosts leave exactly the last 10).
C4_RecentBoundedMruFirst ==
    LET recent == config.recent
    IN  /\ Len(recent) <= 10
        /\ \A i, j \in 1..Len(recent) : i < j => recent[i] # recent[j]
        /\ \A i, j \in 1..Len(recent) :
              i < j => LastUsed(recent[i]) > LastUsed(recent[j])
        /\ \A h \in DOMAIN config.connections :
              h \notin Range(recent) =>
                  /\ Len(recent) = 10
                  /\ \A i \in 1..Len(recent) : LastUsed(recent[i]) > LastUsed(h)

\* Eleven distinct hosts were upserted, "h10" first and "h11" last: "h10" is gone.
C4_Witness ==
    /\ last_op.name = "save_connection_info"
    /\ DOMAIN config.connections = RecentHosts
    /\ config.recent = <<"h11", "h01", "h02", "h03", "h04", "h05", "h06", "h07",
                         "h08", "h09">>

Count(seq, x) == Cardinality({i \in 1..Len(seq) : seq[i] = x})

\* seq with every x left out
RECURSIVE Without(_, _)
Without(seq, x) ==
    IF seq = <<>> THEN <<>>
    ELSE IF Head(seq) = x THEN Without(Tail(seq), x)
    ELSE <<Head(seq)>> \o Without(Tail(seq), x)

\* C5: when H is already in the recent list, save_connection_info(H, ...)
\* keeps the length, puts H at index 0 exactly once and keeps the relative
\* order of the others; upserting the front entry again changes nothing.
C5_MoveToFront ==
    [][ (last_op'.name = "save_connection_info"
            /\ last_op'.hostname \in Range(config.recent)) =>
        LET H == last_op'.hostname
        IN  /\ Len(config.recent') = Len(config.recent)
            /\ config.recent'[1] = H
            /\ Count(config.recent', H) = 1
            /\ Without(config.recent', H) = Without(config.recent, H)
            /\ (config.recent[1] = H => config.recent' = config.recent) ]_vars

\* "h05" was moved from the middle of a full list to its front, then upserted again.
C5_Witness ==
    /\ last_op.name = "save_connection_info"
    /\ last_op.hostname = "h05"
    /\ clock = 2
    /\ LastUsed("h05") = 2
    /\ \A h \in RecentHosts \ {"h05"} : h \in DOMAIN config.connections => LastUsed(h) <= 0
    /\ config.recent = <<"h05", "h01", "h02", "h03", "h04", "h06", "h07", "h08",
                         "h09", "h10">>

-----------------------------------------------------------------------------
(* Properties of the argument vector (specification SpecCmd)               *)

HasPrefix(t, pre) == Len(t) >= Len(pre) /\ SubSeq(t, 1, Len(pre)) = pre

Positions(pre) == {i \in 1..Len(cmd) : HasPrefix(cmd[i], pre)}

Occurrences(token) == {i \in 1..Len(cmd) : cmd[i] = token}

\* The last handler built an argument vector.
Launched == last_op.name = "start_rdp_connection" /\ cmd # <<>>

\* The options the vector was built from.
LaunchOptions == get_advanced_options(last_op.hostname)

\* C6: the argument vector holds exactly one /v:<hostname>, one /u:<username>
\* and one /p:<password> token (the password verbatim), in that order,
\* directly after the client binary (only a /d: token may sit between user
\* and password) and before every option token.
C6_TargetUserPasswordOnce ==
    Launched =>
        /\ cmd[1] \in {"xfreerdp", "xfreerdp3"}
        /\ Positions("/v:") = {2}
        /\ cmd[2] = "/v:" \o last_op.hostname
        /\ Positions("/u:") = {3}
        /\ cmd[3] = "/u:" \o last_op.username
        /\ \E ip \in {4, 5} :
              /\ Positions("/p:") = {ip}
              /\ cmd[ip] = "/p:" \o last_op.password
              /\ ip = 5 => HasPrefix(cmd[4], "/d:")
              /\ Positions("/d:") \subseteq {4}

C6_Witness ==
    /\ Launched
    /\ last_op.domain = ""
    /\ SubSeq(cmd, 1, 5) = <<"xfreerdp3", "/v:srv", "/u:alice", "/p:/v:x /f", "/f">>

\* C7: with an empty domain there is no /d: token; with a non-empty domain
\* there is exactly one /d:<domain>, immediately after the /u: token and
\* immediately before the /p: token.
C7_DomainToken ==
    Launched =>
        IF last_op.domain = ""
        THEN Positions("/d:") = {}
        ELSE /\ Positions("/d:") = {4}
             /\ cmd[4] = "/d:" \o last_op.domain
             /\ HasPrefix(cmd[3], "/u:")
             /\ HasPrefix(cmd[5], "/p:")

C7_Witness ==
    /\ Launched
    /\ last_op.domain = "CORP"
    /\ SubSeq(cmd, 3, 5) = <<"/u:alice", "/d:CORP", "/p:/v:x /f">>

\* Step of the algorithm that emits an option token; 0 for any other token.
OptionRank(t) ==
    CASE t = "/f" \/ HasPrefix(t, "/size:") -> 1
      [] t = "/multimon" -> 2
      [] HasPrefix(t, "/monitors:") -> 3
      [] t = "-fonts" -> 4
      [] t = "-wallpaper" -> 5
      [] t = "-themes" -> 6
      [] t = "-aero" -> 7
      [] t = "-window-drag" -> 8
      [] t \in {"/sound:sys:alsa", "/audio-mode:1", "/audio-mode:2"} -> 9
      [] t = "+clipboard" -> 10
      [] t = "/drive:home,/home/user" -> 11
      [] t = "/cert-ignore" -> 12
      [] t \in {"/sec:nla", "/sec:rdp"} -> 13
      [] t = "+compression" -> 14
      [] OTHER -> 0

\* The tokens after the password token.
OptionTokens ==
    LET ip == CHOOSE i \in 1..Len(cmd) : HasPrefix(cmd[i], "/p:")
    IN  SubSeq(cmd, ip + 1, Len(cmd))

\* The value the command is built from: the stored one, else the default.
Effective(key, default) == Get(LaunchOptions, key, default)

\* C8: the option tokens follow the order of the algorithm: display
\* sizing, multimon (+monitors), -fonts, -wallpaper, -themes, -aero,
\* -window-drag (each iff its option holds), audio, +clipboard, the home
\* drive, /cert-ignore, the security mode and +compression last; no token
\* occurs twice and no other token is emitted.
C8_OptionTokenOrder ==
    Launched =>
        LET toks == OptionTokens
            has(t) == \E i \in 1..Len(toks) : toks[i] = t
        IN  /\ \A i \in 1..Len(toks) : OptionRank(toks[i]) > 0
            /\ \A i, j \in 1..Len(toks) :
                  i < j => OptionRank(toks[i]) < OptionRank(toks[j])
            /\ Len(toks) > 0 /\ OptionRank(toks[1]) = 1
            /\ has("/multimon") <=> Effective("multimon", FALSE)
            /\ (\E i \in 1..Len(toks) : OptionRank(toks[i]) = 3)
                  <=> (/\ Effective("multimon", FALSE)
                       /\ Effective("selected_monitors", <<>>) # <<>>)
            /\ has("-fonts") <=> Effective("disable_fonts", TRUE)
            /\ has("-wallpaper") <=> Effective("disable_wallpaper", TRUE)
            /\ has("-themes") <=> Effective("disable_themes", TRUE)
            /\ has("-aero") <=> Effective("disable_aero", TRUE)
            /\ has("-window-drag") <=> Effective("disable_drag", TRUE)
            /\ has("+clipboard") <=> Effective("clipboard", TRUE)
            /\ has("/drive:home,/home/user") <=> Effective("redirect_drives", FALSE)
            /\ has("/cert-ignore")
            /\ \E i \in 1..Len(toks) : OptionRank(toks[i]) = 13
            /\ has("+compression") <=> Effective("compression", TRUE)
            /\ has("+compression") => toks[Len(toks)] = "+compression"

\* Every token of the algorithm in one vector.
C8_Witness ==
    /\ Launched
    /\ OptionTokens = <<"/size:1024x768", "/multimon", "/monitors:1,0", "-fonts",
                        "-wallpaper", "-themes", "-aero", "-window-drag",
                        "/audio-mode:1", "+clipboard", "/drive:home,/home/user",
                        "/cert-ignore", "/sec:rdp", "+compression">>

\* C10: the vector holds exactly one of /f and a /size: token; /f is there
\* iff fullscreen is true or absent; with fullscreen false and resolution
\* "1024x768" it holds /size:1024x768 and no /f.
C10_DisplaySizingExclusive ==
    Launched =>
        /\ Cardinality(Occurrences("/f")) + Cardinality(Positions("/size:")) = 1
        /\ (Occurrences("/f") # {}) <=> Effective("fullscreen", TRUE)
        /\ (/\ ~Effective("fullscreen", TRUE)
            /\ Effective("resolution", "") = "1024x768")
              => /\ Occurrences("/size:1024x768") # {}
                 /\ Occurrences("/f") = {}

C10_Witness ==
    /\ Launched
    /\ "fullscreen" \in DOMAIN LaunchOptions
    /\ ~LaunchOptions["fullscreen"]
    /\ Effective("resolution", "") = "1024x768"
    /\ Occurrences("/size:1024x768") = {5}
    /\ Occurrences("/f") = {}

\* The defaults the specification documents for the options.
DocumentedDefaults ==
    [fullscreen |-> TRUE, resolution |-> "1920x1080", multimon |-> FALSE,
     selected_monitors |-> <<>>, disable_fonts |-> TRUE, disable_wallpaper |-> TRUE,
     disable_themes |-> TRUE, disable_aero |-> TRUE, disable_drag |-> TRUE,
     compression |-> TRUE, audio_mode |-> "local", clipboard |-> TRUE,
     redirect_drives |-> FALSE, nla |-> TRUE]

\* The stored options merged over the documented defaults.
Merged ==
    [k \in DOMAIN DocumentedDefaults |-> Get(LaunchOptions, k, DocumentedDefaults[k])]

When(b, token) == IF b THEN <<token>> ELSE <<>>

\* The option tokens a complete option set o stands for.
TokensOf(o) ==
    (IF o.fullscreen THEN <<"/f">> ELSE <<"/size:" \o o.resolution>>)
    \o When(o.multimon, "/multimon")
    \o When(o.multimon /\ o.selected_monitors # <<>>,
            "/monitors:" \o JoinInts(o.selected_monitors, ","))
    \o When(o.disable_fonts, "-fonts")
    \o When(o.disable_wallpaper, "-wallpaper")
    \o When(o.disable_themes, "-themes")
    \o When(o.disable_aero, "-aero")
    \o When(o.disable_drag, "-window-drag")
    \o When(o.audio_mode = "local", "/sound:sys:alsa")
    \o When(o.audio_mode = "remote", "/audio-mode:1")
    \o When(o.audio_mode = "disabled", "/audio-mode:2")
    \o When(o.clipboard, "+clipboard")
    \o When(o.redirect_drives, "/drive:home,/home/user")
    \o <<"/cert-ignore">>
    \o (IF o.nla THEN <<"/sec:nla">> ELSE <<"/sec:rdp">>)
    \o When(o.compression, "+compression")

\* C18: every option missing from the stored set (or the whole set, for a
\* host without a profile) takes its documented default when the command is
\* built, and a stored value, a stored false included, is used as it is; a
\* host with no stored options yields exactly /f -fonts -wallpaper -themes
\* -aero -window-drag /sound:sys:alsa +clipboard /cert-ignore /sec:nla
\* +compression.
C18_DefaultsMerge ==
    Launched =>
        /\ OptionTokens = TokensOf(Merged)
        /\ LaunchOptions = EmptyMap =>
              OptionTokens = <<"/f", "-fonts", "-wallpaper", "-themes", "-aero",
                               "-window-drag", "/sound:sys:alsa", "+clipboard",
                               "/cert-ignore", "/sec:nla", "+compression">>

\* Only clipboard is stored, as false: every other option took its default.
C18_Witness ==
    /\ Launched
    /\ LaunchOptions = ("clipboard" :> FALSE)
    /\ OptionTokens = <<"/f", "-fonts", "-wallpaper", "-themes", "-aero",
                        "-window-drag", "/sound:sys:alsa",
                        "/cert-ignore", "/sec:nla", "+compression">>

\* C20: every argument vector holds /cert-ignore exactly once, immediately
\* followed by the one security token of the vector: /sec:nla when nla is
\* true or absent, /sec:rdp when nla is false; never both.
C20_CertIgnoreThenSecurity ==
    Launched =>
        /\ Cardinality(Occurrences("/cert-ignore")) = 1
        /\ Cardinality(Positions("/sec:")) = 1
        /\ \A i \in Occurrences("/cert-ignore") :
              /\ Positions("/sec:") = {i + 1}
              /\ cmd[i + 1] = IF Effective("nla", TRUE) THEN "/sec:nla" ELSE "/sec:rdp"
        /\ ~(Occurrences("/sec:nla") # {} /\ Occurrences("/sec:rdp") # {})

\* nla is stored as false: /sec:rdp follows /cert-ignore.
C20_Witness ==
    /\ Launched
    /\ "nla" \in DOMAIN LaunchOptions
    /\ ~LaunchOptions["nla"]
    /\ \E i \in 1..(Len(cmd) - 1) : cmd[i] = "/cert-ignore" /\ cmd[i + 1] = "/sec:rdp"
    /\ Occurrences("/sec:nla") = {}

\* The integers a /monitors:<list> token lists, in the order of the token.
MonitorsListed(token) ==
    LET pieces == Split(SubSeq(token, Len("/monitors:") + 1, Len(token)), ",")
    IN  [i \in 1..Len(pieces) |-> int(pieces[i])]

\* C21: /multimon is emitted iff multimon is true; a /monitors:<list> token
\* is emitted iff multimon is true and selected_monitors is non-empty, it
\* directly follows /multimon, and it lists the stored integers in stored
\* order, neither sorted nor deduplicated; with multimon false (or absent) a
\* stored monitor list gives no /monitors token.
C21_MultimonTokens ==
    Launched =>
        LET multimon == Effective("multimon", FALSE)
            selected == Effective("selected_monitors", <<>>)
        IN  /\ Cardinality(Occurrences("/multimon")) = IF multimon THEN 1 ELSE 0
            /\ Cardinality(Positions("/monitors:"))
                  = IF multimon /\ selected # <<>> THEN 1 ELSE 0
            /\ \A i \in Positions("/monitors:") :
                  /\ i > 1
                  /\ cmd[i - 1] = "/multimon"
                  /\ MonitorsListed(cmd[i]) = selected

\* The stored list 2, 0, 2 is passed on as it is.
C21_Witness ==
    /\ Launched
    /\ Effective("selected_monitors", <<>>) = <<2, 0, 2>>
    /\ \E i \in 1..(Len(cmd) - 1) :
          cmd[i] = "/multimon" /\ cmd[i + 1] = "/monitors:2,0,2"

-----------------------------------------------------------------------------
(* Properties of a session (specification SpecConnect)                     *)

\* The connect handler met an empty hostname or username, or an empty
\* password was submitted.
Rejected(op) ==
    /\ op.name = "on_connect_clicked"
    /\ \/ op.hostname = ""
       \/ op.username = ""
       \/ op.response = "ok" /\ op.password = ""

\* C14: when the hostname or the username is empty after stripping, or the
\* submitted password is empty, an error message is shown and nothing else
\* happens: no client is started (the last argument vector stays what it
\* was, the empty one included), and the registry, the in-memory credential
\* map, the keyring entry and both files are unchanged.
C14_ValidationStops ==
    [][ Rejected(last_op') =>
          /\ HasPrefix(message', "error:")
          /\ ~raised'
          /\ UNCHANGED <<cmd, config, stored_credentials, keyring_entry,
                         credentials_file, config_file>> ]_vars

\* After a connection to "srv" with a saved password, an empty password was
\* submitted for it: the error is shown, profile and password are still there.
C14_Witness ==
    /\ last_op.name = "on_connect_clicked"
    /\ last_op.hostname = "srv"
    /\ last_op.username = "alice"
    /\ last_op.response = "ok"
    /\ last_op.password = ""
    /\ message = "error:password is required"
    /\ config.recent = <<"srv">>
    /\ get_password_for_connection("srv", "alice") = "pw1"
    /\ cmd # <<>>

\* The handler took a non-empty password for host h and got past save_password.
PasswordEntered(op, h) ==
    /\ op.name = "on_connect_clicked"
    /\ op.hostname = h
    /\ op.response = "ok"
    /\ op.password # ""
    /\ op.outcome # "save_password raised"

\* The options dialog was saved for host h.
OptionsSaved(op, h) == op.name = "show_advanced_options" /\ op.hostname = h /\ h # ""

ConnectHosts == {Strip(ht) : ht \in ConnectHostTexts}

LaunchAttempted(op) ==
    /\ op.name = "on_connect_clicked"
    /\ op.outcome \in {"launched", "popen raised", "no client"}

\* The handler was given a non-empty password in the password dialog.
PasswordConfirmed(op) ==
    /\ op.name = "on_connect_clicked"
    /\ op.response = "ok"
    /\ op.password # ""

\* C25: when a non-empty password is confirmed the handler (1) saves the
\* password iff "Save password" is checked, (2) upserts the profile and the
\* recent list, (3) attempts the launch.  At every launch attempt, failed
\* or not, steps 1 and 2 are done and written to their store; a step that
\* raises stops the later ones; with the box unchecked the credential map
\* and its stores are left as they were.
C25_PersistBeforeLaunch ==
    [][PasswordConfirmed(last_op') =>
          LET op == last_op'
              h == op.hostname
              key == h \o ":" \o op.username
          IN  /\ ~op.remember =>
                    /\ stored_credentials' = stored_credentials
                    /\ keyring_entry' = keyring_entry
                    /\ credentials_file' = credentials_file
              /\ op.outcome = "save_password raised" =>
                    /\ op.remember
                    /\ config' = config
                    /\ config_file' = config_file
                    /\ cmd' = cmd
              /\ op.outcome = "save_config raised" => cmd' = cmd
              /\ (op.remember /\ op.outcome # "save_password raised") =>
                    /\ key \in DOMAIN stored_credentials'
                    /\ stored_credentials'[key] = op.password
                    /\ \/ keyring_entry' = json_dumps(stored_credentials')
                       \/ /\ credentials_file'.exists
                          /\ credentials_file'.data = json_dumps(stored_credentials')
              /\ LaunchAttempted(op) =>
                    /\ h \in DOMAIN config'.connections
                    /\ Get(config'.connections[h], "username", "") = op.username
                    /\ Get(config'.connections[h], "domain", "?") = op.domain
                    /\ Get(config'.connections[h], "last_used", -1) = clock'
                    /\ config'.recent # <<>>
                    /\ config'.recent[1] = h
                    /\ config_file'.exists
                    /\ config_file'.data = json_dumps(config')
              /\ op.outcome = "no client" =>
                    message' = "error:FreeRDP is not installed"
              /\ op.outcome = "popen raised" => message' = "error:failed to start"
      ]_vars

\* The password was to be saved and the client could not be started: the
\* password is in the credential map and in its store, the profile and the
\* recent list are in the configuration file.
C25_Witness ==
    /\ PasswordConfirmed(last_op)
    /\ last_op.remember
    /\ last_op.outcome = "popen raised"
    /\ get_password_for_connection("srv", "alice") = "pw1"
    /\ config.recent = <<"srv">>
    /\ config.connections["srv"]["username"] = "alice"
    /\ config_file.exists
    /\ config_file.data = json_dumps(config)

\* The connect handler handed an argument vector to Popen.
ConnectStarted ==
    /\ last_op.name = "on_connect_clicked"
    /\ last_op.outcome \in {"launched", "popen raised"}

AudioPositions == Positions("/sound") \cup Positions("/audio-mode")

\* C19: the argument vector holds at most one audio token: /sound:sys:alsa
\* for audio_mode "local" (or none stored), /audio-mode:1 for "remote",
\* /audio-mode:2 for "disabled"; any other stored value gives no audio token
\* and no error.  A save of the options dialog stores one of the three
\* values.
C19_AudioToken ==
    /\ ConnectStarted =>
          LET audio_mode == Get(get_advanced_options(last_op.hostname), "audio_mode", "local")
              tokens == {cmd[i] : i \in AudioPositions}
          IN  /\ Cardinality(AudioPositions) <= 1
              /\ ~raised
              /\ tokens = CASE audio_mode = "local" -> {"/sound:sys:alsa"}
                             [] audio_mode = "remote" -> {"/audio-mode:1"}
                             [] audio_mode = "disabled" -> {"/audio-mode:2"}
                             [] OTHER -> {}
              /\ (tokens = {} /\ last_op.outcome = "launched") => message = "none"
    /\ (last_op.name = "show_advanced_options" /\ last_op.hostname # "") =>
          get_advanced_options(last_op.hostname)["audio_mode"]
              \in {"local", "remote", "disabled"}

\* A client was started for "srv" while its stored audio mode was "surround".
C19_Witness ==
    /\ ConnectStarted
    /\ last_op.outcome = "launched"
    /\ get_advanced_options("srv") = ("audio_mode" :> "surround")
    /\ AudioPositions = {}
    /\ message = "none"
    /\ cmd[1] = "xfreerdp3"

-----------------------------------------------------------------------------
(* Properties of the options dialog (specification SpecDialog)             *)

\* C9: when the dialog is saved with a monitor text in which some
\* comma-separated piece is not an integer, the stored selected_monitors is
\* the empty list, whatever was stored before, and no error is shown; when
\* every piece is an integer, the stored list is those integers in order.
C9_MonitorParseAllOrNothing ==
    [][ (last_op'.name = "show_advanced_options" /\ last_op'.hostname # "") =>
        LET text == Strip(monitor_entry)
            pieces == Split(text, ",")
            allInts == text # "" /\ \A i \in 1..Len(pieces) : int_ok(pieces[i])
            stored == config'.connections[last_op'.hostname]["advanced"]["selected_monitors"]
        IN  /\ ~allInts => stored = <<>>
            /\ allInts => /\ Len(stored) = Len(pieces)
                          /\ \A i \in 1..Len(pieces) : stored[i] = int(pieces[i])
            /\ message' \in {"none", "info:advanced options saved"} ]_vars

\* "0,1,x" was saved: nothing is stored and the dialog reports success.
C9_Witness ==
    /\ last_op.name = "show_advanced_options"
    /\ last_op.text = "0,1,x"
    /\ get_advanced_options("srv")["selected_monitors"] = <<>>
    /\ message = "info:advanced options saved"

-----------------------------------------------------------------------------
(* Properties of the registry (specifications SpecRegistry and             *)
(* SpecRegistryEdited)                                                     *)

ProfileKeys == {"username", "domain", "last_used"}

InRecent(cfg, h) == \E i \in 1..Len(cfg.recent) : cfg.recent[i] = h

\* Each hostname of the recent list has a profile with the three fields.
RecentHaveProfiles ==
    \A i \in 1..Len(config.recent) :
        /\ config.recent[i] \in DOMAIN config.connections
        /\ ProfileKeys \subseteq DOMAIN config.connections[config.recent[i]]

\* A host for which only options were ever saved has no last_used.
NeverConnected(cfg, h) ==
    h \in DOMAIN cfg.connections => "last_used" \notin DOMAIN cfg.connections[h]

\* C26: starting from an empty registry, every hostname in the recent list
\* is a key of connections and its profile has username, domain and
\* last_used; saving advanced options for a host that was never connected
\* puts it into connections and not into the recent list, and such a host is
\* never in the recent list.
C26_RecentHaveProfiles ==
    /\ [](/\ RecentHaveProfiles
          /\ \A h \in RegistryHosts : NeverConnected(config, h) => ~InRecent(config, h))
    /\ [][\A h \in RegistryHosts :
            (OptionsSaved(last_op', h) /\ NeverConnected(config, h)) =>
                /\ h \in DOMAIN config'.connections
                /\ "advanced" \in DOMAIN config'.connections[h]
                /\ NeverConnected(config', h)
                /\ ~InRecent(config', h)]_vars

\* "lab" was connected to and is in the recent list with its profile; "srv"
\* only had its options saved and is in connections, not in the list.
C26_Witness ==
    /\ last_op.name = "show_advanced_options"
    /\ last_op.hostname = "srv"
    /\ config.recent = <<"lab">>
    /\ DOMAIN config.connections = {"srv", "lab"}
    /\ DOMAIN config.connections["srv"] = {"advanced"}
    /\ ProfileKeys \subseteq DOMAIN config.connections["lab"]

\* Every host's profile but that of h is the same in cfg1 and cfg2.
OthersUnchanged(cfg1, cfg2, h) ==
    /\ DOMAIN cfg2.connections \ {h} = DOMAIN cfg1.connections \ {h}
    /\ \A g \in DOMAIN cfg1.connections \ {h} : cfg2.connections[g] = cfg1.connections[g]

\* The profile of h changed from cfg1 to cfg2 in the keys `keys` at most:
\* they are set afterwards, every other key is as it was.
OnlyKeysChanged(cfg1, cfg2, h, keys) ==
    LET before == Get(cfg1.connections, h, EmptyMap)
    IN  /\ h \in DOMAIN cfg2.connections
        /\ DOMAIN cfg2.connections[h] = DOMAIN before \cup keys
        /\ \A k \in DOMAIN before \ keys : cfg2.connections[h][k] = before[k]

\* C27: save_connection_info(H, ...) changes only H's username, domain and
\* last_used and the recent list: H's advanced options and every other
\* host's profile stay; save_advanced_options(H, opts) makes opts the whole
\* advanced set of H, no key of the previous set surviving, and leaves H's
\* other fields, the recent list and every other host's profile; neither
\* touches the credential map or its stores.
C27_RegistryFrames ==
    [][ /\ last_op'.name = "save_connection_info" =>
            LET h == last_op'.hostname
            IN  /\ OthersUnchanged(config, config', h)
                /\ OnlyKeysChanged(config, config', h, ProfileKeys)
                /\ config'.connections[h]["username"] = last_op'.username
                /\ config'.connections[h]["domain"] = last_op'.domain
                /\ config'.connections[h]["last_used"] = clock'
                /\ UNCHANGED credVars
        /\ (last_op'.name = "show_advanced_options" /\ last_op'.hostname # "") =>
            LET h == last_op'.hostname
            IN  /\ OthersUnchanged(config, config', h)
                /\ OnlyKeysChanged(config, config', h, {"advanced"})
                /\ config'.connections[h]["advanced"] = last_op'.options
                /\ config'.recent = config.recent
                /\ UNCHANGED credVars ]_vars

\* Both hosts were connected to and had options saved; the options of "srv"
\* were saved last: its profile keeps the user of its connection, its option
\* set is the dialog's, and the stored password is still there.
C27_Witness ==
    /\ last_op.name = "show_advanced_options"
    /\ last_op.hostname = "srv"
    /\ config.recent = <<"lab", "srv">>
    /\ config.connections["srv"]["username"] = "bob"
    /\ config.connections["srv"]["advanced"] = last_op.options
    /\ "gateway" \notin DOMAIN config.connections["srv"]["advanced"]
    /\ "advanced" \in DOMAIN config.connections["lab"]
    /\ get_password_for_connection("srv", "alice") = "pw1"

-----------------------------------------------------------------------------
(* Properties of the connection window (specification SpecWindow)          *)

\* The thread of connection n has called wait() on a process.
Waited(n) == monitor_process[n].pc \in {"waiting", "notified"}

\* C24: in every interleaving of the monitor threads with the main thread,
\* no monitor thread calls wait() on a cleared (None) handle, and a monitor
\* thread waits only on the process of the connection it was started for.
C24_MonitorWaitsOnOwnProcess ==
    \A n \in Connections :
        /\ monitor_process[n].pc # "crashed"
        /\ Waited(n) => monitor_process[n].on = n

\* The calls made on the process of the window: terminate first; kill only
\* after terminate raised or after the wait timed out.
KillOnlyAfterGraceful ==
    LET calls == connection_window.calls
        failed == connection_window.failed
    IN  /\ calls # <<>> => calls[1] = "terminate"
        /\ \A i \in 1..Len(calls) :
              calls[i] = "kill" =>
                 \/ i = 2 /\ "terminate" \in failed
                 \/ i = 3 /\ calls[2] = "wait" /\ "wait" \in failed
        /\ \A i \in 1..Len(calls) :
              calls[i] = "wait" => i = 2 /\ "terminate" \notin failed

\* show_connection_window is over for a window that was shown.
WindowLeft == connection_window.pc = "idle" /\ connection_window.n # 0

\* C22: when the connection window is closed, terminate is attempted first
\* and kill is issued only if terminate raised or the process did not exit
\* within the wait; in every case, once show_connection_window is over,
\* current_process is None and the process has been terminated or killed.
C22_TerminationOrder ==
    /\ KillOnlyAfterGraceful
    /\ WindowLeft =>
          /\ current_process = NoProcess
          /\ child[connection_window.n] = "exited"

====
